---- MODULE Spec2Model ----
(***************************************************************************)
(* UTXO status cache (bitcoin/cache.rs), UTXO tracker                      *)
(* (bitcoin/utxo_tracker.rs) and the JSON-RPC chain client                 *)
(* (bitcoin/rpc.rs) of the OTORI Vision program, as state machines.        *)
(*                                                                         *)
(* Rust values are written as follows: Option<T> is <<>> (None) or <<x>>   *)
(* (Some(x)); Result<T, E> is a record [ok |-> TRUE, val |-> x] or         *)
(* [ok |-> FALSE, err |-> e]; a String is a sequence of one-character      *)
(* strings; a HashMap is a function whose DOMAIN is its key set.           *)
(***************************************************************************)
EXTENDS Integers, Sequences, FiniteSets, TLC

VARIABLES
    config,      \* UtxoCache.config: max_size, refresh_interval, invalid_ttl
    cache,       \* UtxoCache.cache: HashMap<[u8; 32], CacheEntry>
    cacheLock,   \* owner of the cache Mutex: <<>> or <<caller>>
    poisoned,    \* the cache Mutex is poisoned: a holder of its guard panicked
    cpc,         \* per caller of UtxoCache::get_utxo_status: position in the call
    carg,        \* per caller: the utxo argument of the call in progress
    now,         \* SystemTime::now()
    utxos,       \* UtxoTracker.utxos: HashMap<String, (UtxoMeta, UtxoStatus)>
    spc,         \* per tracker handle: the sweep it is running
    todo,        \* per tracker handle: the rest of the sweep's snapshot
    snapshot,    \* per tracker handle: the txids its running sweep collected
    min_confirmations, \* UtxoTracker.min_confirmations
    ret,         \* per caller: what its last finished cache call returned
    stats,       \* what the last UtxoCache::get_stats returned
    trackerLock, \* owner of the tracker Mutex: <<>> or <<handle>>
    calls,       \* the tracker calls a client has made, with what they returned
    chain,       \* what the remote node knows of the transaction queried
    rcall,       \* BitcoinRpcClient: the public method in progress, or None
    rpos,        \* BitcoinRpcClient: the make_rpc_call the method has reached
    rpcpc,       \* make_rpc_call: about to "execute" an attempt, or in "sleep"
    retries,     \* make_rpc_call: the loop counter
    rconf,       \* get_utxo_status: its local `confirmations`, once fetched
    wire,        \* the requests sent and delays slept by the latest make_rpc_call
    rret,        \* what the last finished BitcoinRpcClient call returned
    vutxo,       \* validate_utxo: the record behind its `utxo: &mut UtxoMeta`
    vpc,         \* validate_utxo: the reply it is waiting for
    vret,        \* what the last finished validate_utxo returned
    vmsg,        \* what the validate_utxo in progress or last finished logged
    workers,     \* the scheduler: how many worker threads poll the tasks
    thread,      \* per caller: the worker thread its task is blocked on, or 0
    lockThread,  \* the worker thread on which the cache Mutex was last locked
    node,        \* MockBitcoinNode: its transaction and its utxo_set entry
    mret,        \* what the last MockBitcoinRpcClient::get_utxo_status returned
    lret,        \* what the last BitcoinRpcClient::get_utxo_status returned
    nav_sats,    \* OVTState.nav_sats
    last_nav_update, \* OVTState.last_nav_update
    nret,        \* what the last OVTState::update_nav returned
    epc,         \* bitcoin_rpc.rs get_utxo_status: position in the call
    eret,        \* bitcoin_rpc.rs: what the last finished get_utxo_status returned
    eok          \* bitcoin_rpc.rs: the UTXOs a get_utxo_status returned Ok for

cacheVars == <<config, cache, cacheLock, poisoned, cpc, carg, ret, stats, now>>
trackerVars == <<utxos, spc, todo, snapshot, min_confirmations, trackerLock>>
rpcVars == <<chain, rcall, rpos, rpcpc, retries, rconf, wire, rret>>
validateVars == <<vutxo, vpc, vret, vmsg>>
schedVars == <<workers, thread, lockThread>>
mockVars == <<node, mret, lret>>
navVars == <<nav_sats, last_nav_update, nret>>
electrsVars == <<epc, eret, eok>>
extVars == <<schedVars, mockVars, navVars, electrsVars>>
vars == <<config, cache, cacheLock, poisoned, cpc, carg, ret, stats, now,
          utxos, spc, todo, snapshot, min_confirmations, trackerLock,
          calls, chain, rcall, rpos, rpcpc, retries, rconf, wire, rret,
          vutxo, vpc, vret, vmsg, workers, thread, lockThread,
          node, mret, lret, nav_sats, last_nav_update, nret, epc, eret, eok>>

-----------------------------------------------------------------------------
(* Bounds of the model *)

MaxSize == 2         \* largest configured cache capacity
MaxTime == 2         \* the clock runs from 0 to MaxTime
MaxConf == 1         \* largest confirmation count the remote reports
MaxCalls == 3        \* longest history of tracker calls that is kept
MaxWorkers == 2      \* most worker threads the runtime polls its tasks on
WordBits == 16       \* width the u64 fields of OVTState are modelled with

(* Program constants *)

TxidHexLen == 64     \* a txid is 64 hex characters
KeyBytes == 32       \* the cache key is [u8; 32]
RefreshInterval == 1 \* refresh_interval of the cache configuration
InvalidTtl == 2      \* invalid_ttl of the cache configuration
MAX_RETRIES == 3     \* attempts of one make_rpc_call
ERR_UTXO_VALIDATION == 1000
ERR_INSUFFICIENT_CONFIRMATIONS == 1009
ERR_UTXO_STATUS == 1010
RequiredConfirmations == 6   \* validate_utxo: `utxo.confirmations < 6`
TEST_BLOCK_HEIGHT == 100     \* the block height of the tests of utxo.rs
RETRY_DELAY_MS == 1000 \* the delay between two attempts

-----------------------------------------------------------------------------
(* Rust values *)

None == <<>>
Some(x) == <<x>>
Ok(x) == [ok |-> TRUE, val |-> x]
Err(e) == [ok |-> FALSE, err |-> e]

UtxoStatus == {"Active", "Pending", "Spent", "Invalid"}

(* hex::FromHex for Vec<u8>: an odd length or a character that is no hex   *)
(* digit is an error; both cases of a-f are accepted.                      *)
LowerHex == <<"0","1","2","3","4","5","6","7","8","9","a","b","c","d","e","f">>
UpperHex == <<"0","1","2","3","4","5","6","7","8","9","A","B","C","D","E","F">>
IsHexChar(c) == \E i \in 1..16 : LowerHex[i] = c \/ UpperHex[i] = c
HexVal(c) == (CHOOSE i \in 1..16 : LowerHex[i] = c \/ UpperHex[i] = c) - 1

from_hex(s) ==
    IF Len(s) % 2 # 0 \/ \E i \in 1..Len(s) : ~IsHexChar(s[i])
    THEN Err("FromHexError")
    ELSE Ok([i \in 1..(Len(s) \div 2) |-> 16 * HexVal(s[2*i - 1]) + HexVal(s[2*i])])

(* UtxoMeta::new *)
UtxoMeta_new(txid, vout, amount_sats) ==
    [txid |-> txid, vout |-> vout, amount_sats |-> amount_sats,
     confirmations |-> 0, script_pubkey |-> <<>>,
     block_height |-> None, block_hash |-> None]

(* UtxoMeta::txid_to_bytes: the hex form of exactly 32 bytes, or an error *)
txid_to_bytes(utxo) ==
    LET bytes == from_hex(utxo.txid)
    IN  IF ~bytes.ok THEN Err("InvalidArgument")
        ELSE IF Len(bytes.val) # KeyBytes THEN Err("InvalidArgument")
        ELSE Ok(bytes.val)

(* The identity of a UTXO: transaction id and output index *)
Identity(utxo) == <<utxo.txid, utxo.vout>>

-----------------------------------------------------------------------------
(* Inputs: transaction ids and UTXO records *)

Pad(prefix) == prefix \o [i \in 1..(TxidHexLen - Len(prefix)) |-> "0"]

TxA == Pad(<<"a">>)          \* "a000...": cache.rs test_cache_basic_operations
TxAUpper == Pad(<<"A">>)     \* the same bytes written in upper case
TxB == Pad(<<"b">>)
TxC == Pad(<<"c">>)
TxBad == <<"t","e","s","t">> \* not hex: tests/utxo_tracking.rs uses such ids
TxShort == <<"a","b">>       \* hex, of one byte

UtxoA0 == UtxoMeta_new(TxA, 0, 1000)
UtxoA1 == UtxoMeta_new(TxA, 1, 2000)   \* another output of the same transaction
UtxoAUpper == UtxoMeta_new(TxAUpper, 0, 1000)   \* the txid of UtxoA0 in upper case
UtxoB0 == UtxoMeta_new(TxB, 0, 3000)
UtxoC0 == UtxoMeta_new(TxC, 0, 4000)
UtxoBad == UtxoMeta_new(TxBad, 0, 5000)
UtxoShort == UtxoMeta_new(TxShort, 0, 6000)

(* The arguments of UtxoCache::get_utxo_status and of UtxoTracker::add_utxo *)
CacheUtxos == {UtxoA0, UtxoA1, UtxoB0, UtxoC0, UtxoBad, UtxoShort}
TrackerUtxos == {UtxoA0, UtxoA1, UtxoBad}
TrackerTxids == {u.txid : u \in TrackerUtxos}

Callers == {"c1", "c2"}   \* tasks calling the cache
Handles == {"h1", "h2"}   \* clones of the UtxoTracker, sharing its map

(* txid_to_bytes of every input, computed once *)
KeyOf == [u \in CacheUtxos |-> txid_to_bytes(u)]

-----------------------------------------------------------------------------
(* BitcoinRpcClient::get_utxo_status (bitcoin/rpc.rs), as a function of    *)
(* the replies to its three queries: getrawtransaction, the confirmation   *)
(* count, and gettxout. A reply is a Result; `?` returns the first error.  *)

RpcErrors == {"ConnectionFailed"}
TxReplies == {Ok("tx")} \cup {Err(e) : e \in RpcErrors}
ConfReplies == {Ok(n) : n \in 0..MaxConf} \cup {Err(e) : e \in RpcErrors}
TxOutReplies == {Ok(TRUE), Ok(FALSE)} \cup {Err(e) : e \in RpcErrors}

(* BitcoinRpcClient::get_confirmations: getrawtransaction, then the count *)
BitcoinRpcClient_get_confirmations(txReply, confReply) ==
    IF ~txReply.ok THEN txReply ELSE confReply

ConfirmationResults ==
    {BitcoinRpcClient_get_confirmations(t, c) : t \in TxReplies, c \in ConfReplies}

(* BitcoinRpcClient::get_utxo_status: get_transaction, get_confirmations,  *)
(* and, with a count above 0, gettxout.                                    *)
BitcoinRpcClient_get_utxo_status(txReply, confirmations, txoutReply) ==
    IF ~txReply.ok THEN txReply
    ELSE IF ~confirmations.ok THEN confirmations
    ELSE IF confirmations.val = 0 THEN Ok("Pending")
    ELSE IF ~txoutReply.ok THEN txoutReply
    ELSE IF ~txoutReply.val THEN Ok("Spent")
    ELSE Ok("Active")

(* Every result the client can hand to a caller *)
StatusReplies ==
    {BitcoinRpcClient_get_utxo_status(t, c, o) :
        t \in TxReplies, c \in ConfirmationResults, o \in TxOutReplies}

-----------------------------------------------------------------------------
(* BitcoinRpcClient (bitcoin/rpc.rs), one call at a time: the public       *)
(* methods get_transaction, get_confirmations and get_utxo_status, each a  *)
(* sequence of make_rpc_call, each of those a loop of execute_rpc_call.    *)
(* An error is written by its kind; its message is not kept.               *)

(* What the remote knows of the transaction queried *)
Chains ==
    {[known |-> FALSE, confirmations |-> 0, unspent |-> FALSE]} \cup
    {[known |-> TRUE, confirmations |-> n, unspent |-> b] :
        n \in 0..MaxConf, b \in BOOLEAN}

(* What happens to one request: it is answered by the remote ("none"), or  *)
(* the connection fails, or the credentials are rejected with HTTP 401, or *)
(* the body is not a JSON-RPC response of the expected type (an HTTP 500   *)
(* with no body, as in test_retry_logic), or it has neither result nor     *)
(* error ("empty"), or it has the remote's result and an error as well     *)
(* ("both").                                                               *)
Faults == {"none", "transport", "unauthorized", "undecodable", "empty", "both"}

(* What the remote would put in `result` for a method *)
RemoteResult(method, c) ==
    CASE method = "getrawtransaction" -> "tx"
      [] method = "gettxconfirmations" -> c.confirmations
      [] method = "gettxout" -> c.unspent

(* JsonRpcResponse<R> as the remote fills it in for a method *)
RemoteAnswer(method, c) ==
    IF ~c.known
    THEN [result |-> None, error |-> Some([code |-> -5, message |-> "not found"])]
    ELSE [result |-> Some(RemoteResult(method, c)), error |-> None]

(* The HTTP response to a request: whether send() succeeded, the status,   *)
(* and the body as response.json() decodes it (None: it does not decode)   *)
Response(method, c, fault) ==
    CASE fault = "transport" -> [sent |-> FALSE, status |-> 0, body |-> None]
      [] fault = "unauthorized" -> [sent |-> TRUE, status |-> 401, body |-> None]
      [] fault = "undecodable" -> [sent |-> TRUE, status |-> 500, body |-> None]
      [] fault = "empty" ->
            [sent |-> TRUE, status |-> 200,
             body |-> Some([result |-> None, error |-> None])]
      [] fault = "both" ->
            [sent |-> TRUE, status |-> 200,
             body |-> Some([result |-> Some(RemoteResult(method, c)),
                            error |-> Some([code |-> -1, message |-> "error"])])]
      [] fault = "none" ->
            [sent |-> TRUE, status |-> 200, body |-> Some(RemoteAnswer(method, c))]

(* execute_rpc_call taking a result whenever there is one *)
execute_rpc_call_result_wins(response) ==
    IF ~response.sent THEN Err("ConnectionFailed")
    ELSE IF response.status = 401 THEN Err("AuthError")
    ELSE IF response.body = None THEN Err("InvalidResponse")
    ELSE LET rpc_response == response.body[1]
         IN  IF rpc_response.result # None
             THEN Ok(rpc_response.result[1])
             ELSE Err("InvalidResponse")

(* execute_rpc_call without the check of the HTTP status *)
execute_rpc_call_no_auth_check(response) ==
    IF ~response.sent THEN Err("ConnectionFailed")
    ELSE IF response.body = None THEN Err("InvalidResponse")
    ELSE LET rpc_response == response.body[1]
         IN  IF rpc_response.result # None /\ rpc_response.error = None
             THEN Ok(rpc_response.result[1])
             ELSE Err("InvalidResponse")

(* BitcoinRpcClient::execute_rpc_call *)
execute_rpc_call(response) ==
    IF ~response.sent THEN Err("ConnectionFailed")
    ELSE IF response.status = 401 THEN Err("AuthError")
    ELSE IF response.body = None THEN Err("InvalidResponse")
    ELSE LET rpc_response == response.body[1]
         IN  IF rpc_response.result # None /\ rpc_response.error = None
             THEN Ok(rpc_response.result[1])
             ELSE IF rpc_response.result = None /\ rpc_response.error # None
             THEN Err("InvalidResponse")
             ELSE Err("InvalidResponse")

RpcMethods == {"get_transaction", "get_confirmations", "get_utxo_status"}

(* The make_rpc_call a public method goes through, in order; the last of   *)
(* get_utxo_status only with a confirmation count above 0.                 *)
Queries(m) ==
    CASE m = "get_transaction" -> <<"getrawtransaction">>
      [] m = "get_confirmations" -> <<"getrawtransaction", "gettxconfirmations">>
      [] m = "get_utxo_status" ->
            <<"getrawtransaction", "getrawtransaction", "gettxconfirmations", "gettxout">>

(* The public method after make_rpc_call number i returned Ok(result),     *)
(* with Spent and Active exchanged                                         *)
Continue_inverted(m, i, result) ==
    IF m = "get_utxo_status" /\ i = 3 /\ result = 0
    THEN [done |-> TRUE, ret |-> Ok("Pending")]
    ELSE IF m = "get_utxo_status" /\ i = 4
    THEN [done |-> TRUE, ret |-> Ok(IF ~result THEN "Active" ELSE "Spent")]
    ELSE IF i = Len(Queries(m))
    THEN [done |-> TRUE, ret |-> Ok(result)]
    ELSE [done |-> FALSE, ret |-> Ok(result)]

(* The public method after make_rpc_call number i returned Ok(result): it  *)
(* returns, or goes on to its next query.                                  *)
Continue(m, i, result) ==
    IF m = "get_utxo_status" /\ i = 3 /\ result = 0
    THEN [done |-> TRUE, ret |-> Ok("Pending")]
    ELSE IF m = "get_utxo_status" /\ i = 4
    THEN [done |-> TRUE, ret |-> Ok(IF ~result THEN "Spent" ELSE "Active")]
    ELSE IF i = Len(Queries(m))
    THEN [done |-> TRUE, ret |-> Ok(result)]
    ELSE [done |-> FALSE, ret |-> Ok(result)]

(* The test of the last attempt, one attempt too early *)
LastAttempt_early(r) == r = MAX_RETRIES - 2

(* make_rpc_call: the attempt that returns its error *)
LastAttempt(r) == r = MAX_RETRIES - 1

(* What the wire sees: a request of query number pos, or a delay *)
Request(pos, fault) == [ev |-> "request", pos |-> pos, ms |-> 0, fault |-> fault]
Sleep(pos) == [ev |-> "sleep", pos |-> pos, ms |-> RETRY_DELAY_MS, fault |-> "none"]

(* A caller invokes a public method *)
BitcoinRpcClient_call(m, c) ==
    /\ rpcpc \in {"idle", "done"}
    /\ chain' = c
    /\ rcall' = Some(m)
    /\ rpos' = 1
    /\ rpcpc' = "execute"
    /\ retries' = 0
    /\ rconf' = None
    /\ wire' = <<>>
    /\ rret' = None

(* make_rpc_call, one turn of the loop: execute_rpc_call; Ok returns to    *)
(* the public method, an error returns on the last attempt and otherwise   *)
(* counts a retry and goes to sleep. A returned error leaves the public    *)
(* method by `?`.                                                          *)
BitcoinRpcClient_make_rpc_call_attempt(fault) ==
    /\ rpcpc = "execute"
    /\ retries < MAX_RETRIES
    /\ LET m == rcall[1]
           r == execute_rpc_call(Response(Queries(m)[rpos], chain, fault))
           next == Continue(m, rpos, r.val)
           sofar == IF wire # <<>> /\ wire[1].pos # rpos THEN <<>> ELSE wire
       IN  /\ wire' = Append(sofar, Request(rpos, fault))
           /\ IF r.ok
              THEN /\ rconf' = IF m = "get_utxo_status" /\ rpos = 3
                               THEN Some(r.val) ELSE rconf
                   /\ retries' = 0
                   /\ IF next.done
                      THEN /\ rret' = Some(next.ret)
                           /\ rpcpc' = "done"
                           /\ rpos' = rpos
                      ELSE /\ rpos' = rpos + 1
                           /\ UNCHANGED <<rret, rpcpc>>
              ELSE IF LastAttempt(retries)
              THEN /\ rret' = Some(r)
                   /\ rpcpc' = "done"
                   /\ UNCHANGED <<rpos, retries, rconf>>
              ELSE /\ retries' = retries + 1
                   /\ rpcpc' = "sleep"
                   /\ UNCHANGED <<rpos, rconf, rret>>
    /\ UNCHANGED <<chain, rcall>>

(* make_rpc_call: sleep(RETRY_DELAY_MS) is over *)
BitcoinRpcClient_make_rpc_call_sleep ==
    /\ rpcpc = "sleep"
    /\ wire' = Append(wire, Sleep(rpos))
    /\ rpcpc' = "execute"
    /\ UNCHANGED <<chain, rcall, rpos, retries, rconf, rret>>

(* What make_rpc_call can return for a query of `method`: the result of    *)
(* its last attempt                                                        *)
make_rpc_call_results(method, c) ==
    {execute_rpc_call(Response(method, c, f)) : f \in Faults}

(* What get_utxo_status can return while the remote's view is c *)
BitcoinRpcClient_get_utxo_status_results(c) ==
    {BitcoinRpcClient_get_utxo_status(
         t, BitcoinRpcClient_get_confirmations(t2, n), o) :
        t \in make_rpc_call_results("getrawtransaction", c),
        t2 \in make_rpc_call_results("getrawtransaction", c),
        n \in make_rpc_call_results("gettxconfirmations", c),
        o \in make_rpc_call_results("gettxout", c)}

(* The same for every remote, computed once *)
StatusResultsOf == [c \in Chains |-> BitcoinRpcClient_get_utxo_status_results(c)]

-----------------------------------------------------------------------------
(* StatusCache: bitcoin/cache.rs *)

(* CacheEntry::new with last_updated left at the epoch *)
CacheEntry_new_epoch(utxo, status, t) ==
    [utxo |-> utxo, status |-> status, last_updated |-> 0, last_accessed |-> t]

(* CacheEntry::new storing Pending whatever the status fetched *)
CacheEntry_new_pending(utxo, status, t) ==
    [utxo |-> utxo, status |-> "Pending", last_updated |-> t, last_accessed |-> t]

(* CacheEntry::new *)
CacheEntry_new(utxo, status, t) ==
    [utxo |-> utxo, status |-> status, last_updated |-> t, last_accessed |-> t]

(* needs_refresh with the age compared by > : an entry exactly as old as   *)
(* its interval would still be served from the cache                       *)
needs_refresh_strict(entry, cfg, t) ==
    IF entry.status \in {"Active", "Pending"}
    THEN t - entry.last_updated > cfg.refresh_interval
    ELSE t - entry.last_updated > cfg.invalid_ttl

(* CacheEntry::needs_refresh *)
needs_refresh(entry, cfg, t) ==
    IF entry.status \in {"Active", "Pending"}
    THEN t - entry.last_updated >= cfg.refresh_interval
    ELSE t - entry.last_updated >= cfg.invalid_ttl

(* CacheEntry::access *)
access(entry, t) == [entry EXCEPT !.last_accessed = t]

(* HashMap::remove and HashMap::insert *)
MapRemove(m, k) == [x \in DOMAIN m \ {k} |-> m[x]]
MapInsert(m, k, v) == [x \in DOMAIN m \cup {k} |-> IF x = k THEN v ELSE m[x]]

(* cache.iter().min_by_key(|(_, e)| e.last_accessed): the keys the         *)
(* iteration order of the HashMap may yield among the minima.              *)
OldestKeys(m) ==
    {k \in DOMAIN m : \A j \in DOMAIN m : m[k].last_accessed <= m[j].last_accessed}

(* The map after the eviction branch of get_utxo_status with `oldest`      *)
(* chosen among OldestKeys: nothing is removed below capacity.             *)
EvictIfFull(m, cfg, oldest) ==
    IF Cardinality(DOMAIN m) >= cfg.max_size /\ oldest # None
    THEN MapRemove(m, oldest[1])
    ELSE m

OldestChoices(m) ==
    IF OldestKeys(m) = {} THEN {None} ELSE {Some(k) : k \in OldestKeys(m)}

(* SystemTime::duration_since: an error when `earlier` is later than t *)
duration_since(t, earlier) ==
    IF earlier <= t THEN Ok(t - earlier) ELSE Err("SystemTimeError")

(* lock() returning the guard while another task holds it *)
UtxoCache_lock_not_exclusive == ~poisoned

(* self.cache.lock().unwrap() returns the guard: the Mutex is free and not *)
(* poisoned                                                                *)
UtxoCache_lock == cacheLock = None /\ ~poisoned

(* The key of get_utxo_status without the check of its length *)
UtxoCache_get_utxo_status_key_any_length(utxo) ==
    LET bytes == from_hex(utxo.txid)
    IN  IF bytes.ok THEN Ok(bytes.val) ELSE Err("InvalidResponse")

(* UtxoCache::get_utxo_status, the key: txid_to_bytes, its error mapped to *)
(* InvalidResponse                                                         *)
UtxoCache_get_utxo_status_key(utxo) ==
    IF KeyOf[utxo].ok THEN KeyOf[utxo] ELSE Err("InvalidResponse")

(* UtxoCache::get_utxo_status up to the RPC call: take the lock, compute   *)
(* the key, touch the entry and return a fresh status, or go on to the RPC *)
(* with the lock held. The unwrap() of needs_refresh panics on an entry    *)
(* updated later than the clock reads: the guard is dropped by the         *)
(* unwinding, which poisons the Mutex.                                     *)
UtxoCache_get_utxo_status_lookup(c, utxo) ==
    /\ cpc[c] = "idle"
    /\ UtxoCache_lock
    /\ LET key == UtxoCache_get_utxo_status_key(utxo)
       IN  IF ~key.ok
           THEN /\ ret' = [ret EXCEPT ![c] = Some(key)]
                /\ UNCHANGED <<cache, cacheLock, poisoned, cpc, carg>>
           ELSE IF key.val \in DOMAIN cache
                   /\ ~duration_since(now, cache[key.val].last_updated).ok
           THEN /\ cache' = [cache EXCEPT ![key.val] = access(@, now)]
                /\ poisoned' = TRUE
                /\ cpc' = [cpc EXCEPT ![c] = "panicked"]
                /\ ret' = [ret EXCEPT ![c] = None]
                /\ UNCHANGED <<cacheLock, carg>>
           ELSE IF key.val \in DOMAIN cache
                   /\ ~needs_refresh(access(cache[key.val], now), config, now)
           THEN /\ cache' = [cache EXCEPT ![key.val] = access(@, now)]
                /\ ret' = [ret EXCEPT ![c] = Some(Ok(cache[key.val].status))]
                /\ UNCHANGED <<cacheLock, poisoned, cpc, carg>>
           ELSE /\ cache' = IF key.val \in DOMAIN cache
                            THEN [cache EXCEPT ![key.val] = access(@, now)]
                            ELSE cache
                /\ cacheLock' = Some(c)
                /\ cpc' = [cpc EXCEPT ![c] = "rpc"]
                /\ carg' = [carg EXCEPT ![c] = Some(utxo)]
                /\ ret' = [ret EXCEPT ![c] = None]
                /\ UNCHANGED poisoned
    /\ UNCHANGED <<config, stats, now>>
    /\ UNCHANGED trackerVars

(* The eviction made before the reply is inspected *)
commit_evicting_first(m, cfg, oldest, key, utxo, reply, t) ==
    IF reply.ok
    THEN MapInsert(EvictIfFull(m, cfg, oldest), key, CacheEntry_new(utxo, reply.val, t))
    ELSE EvictIfFull(m, cfg, oldest)

(* What get_utxo_status does to the map once the query has answered: `?`   *)
(* leaves on an error before the eviction and the insert                   *)
commit(m, cfg, oldest, key, utxo, reply, t) ==
    IF reply.ok
    THEN MapInsert(EvictIfFull(m, cfg, oldest), key, CacheEntry_new(utxo, reply.val, t))
    ELSE m

(* UtxoCache::get_utxo_status from the RPC reply on: an error is returned  *)
(* by `?`; a status is inserted after the eviction and returned. The lock  *)
(* is released on return.                                                  *)
UtxoCache_get_utxo_status_reply(c, reply, oldest) ==
    /\ cpc[c] = "rpc"
    /\ cacheLock = Some(c)
    /\ oldest \in OldestChoices(cache)
    /\ LET utxo == carg[c][1]
           key == UtxoCache_get_utxo_status_key(utxo).val
       IN  /\ cache' = commit(cache, config, oldest, key, utxo, reply, now)
           /\ ret' = [ret EXCEPT ![c] = Some(reply)]
    /\ cacheLock' = None
    /\ cpc' = [cpc EXCEPT ![c] = "idle"]
    /\ carg' = [carg EXCEPT ![c] = None]
    /\ UNCHANGED <<config, poisoned, stats, now>>
    /\ UNCHANGED trackerVars

(* handle_reorg dropping only the entries of unspent outputs *)
UtxoCache_handle_reorg_unspent_only(height) ==
    /\ UtxoCache_lock
    /\ cache' = [k \in {j \in DOMAIN cache : cache[j].status \in {"Spent", "Invalid"}}
                    |-> cache[k]]
    /\ UNCHANGED <<config, cacheLock, poisoned, cpc, carg, ret, stats, now>>
    /\ UNCHANGED trackerVars

(* UtxoCache::handle_reorg *)
UtxoCache_handle_reorg(height) ==
    /\ UtxoCache_lock
    /\ cache' = <<>>
    /\ UNCHANGED <<config, cacheLock, poisoned, cpc, carg, ret, stats, now>>
    /\ UNCHANGED trackerVars

(* to_remove with the age compared to refresh_interval *)
to_remove_refresh_interval(m, cfg, t) ==
    {k \in DOMAIN m : /\ m[k].status \in {"Spent", "Invalid"}
                      /\ t - m[k].last_updated >= cfg.refresh_interval}

(* UtxoCache::cleanup *)
to_remove(m, cfg, t) ==
    {k \in DOMAIN m : /\ m[k].status \in {"Spent", "Invalid"}
                      /\ t - m[k].last_updated >= cfg.invalid_ttl}

(* The entries on which the unwrap() of cleanup's filter panics *)
cleanup_panics(m, t) ==
    {k \in DOMAIN m : /\ m[k].status \in {"Spent", "Invalid"}
                      /\ ~duration_since(t, m[k].last_updated).ok}

(* UtxoCache::cleanup: a panic of the filter leaves the map as it is and   *)
(* poisons the Mutex.                                                      *)
UtxoCache_cleanup ==
    /\ UtxoCache_lock
    /\ IF cleanup_panics(cache, now) # {}
       THEN poisoned' = TRUE /\ cache' = cache
       ELSE /\ cache' = [k \in DOMAIN cache \ to_remove(cache, config, now) |-> cache[k]]
            /\ UNCHANGED poisoned
    /\ UNCHANGED <<config, cacheLock, cpc, carg, ret, stats, now>>
    /\ UNCHANGED trackerVars

(* UtxoCache::get_stats *)
CacheStats(total_entries) == [total_entries |-> total_entries, hits |-> 0, misses |-> 0]

UtxoCache_get_stats ==
    /\ UtxoCache_lock
    /\ stats' = Some(CacheStats(Cardinality(DOMAIN cache)))
    /\ UNCHANGED <<config, cache, cacheLock, poisoned, cpc, carg, ret, now>>
    /\ UNCHANGED trackerVars

(* Any operation of the cache called by c once the Mutex is poisoned:      *)
(* lock() returns Err(PoisonError) and unwrap() panics.                    *)
UtxoCache_lock_poisoned(c) ==
    /\ cpc[c] = "idle"
    /\ cacheLock = None
    /\ poisoned
    /\ cpc' = [cpc EXCEPT ![c] = "panicked"]
    /\ ret' = [ret EXCEPT ![c] = None]
    /\ UNCHANGED <<config, cache, cacheLock, poisoned, carg, stats, now>>
    /\ UNCHANGED trackerVars

(* The clock advances *)
Tick ==
    /\ now < MaxTime
    /\ now' = now + 1
    /\ UNCHANGED <<config, cache, cacheLock, poisoned, cpc, carg, ret, stats>>
    /\ UNCHANGED trackerVars

(* SystemTime is not monotonic: the wall clock is set back *)
ClockSetBack ==
    /\ now > 0
    /\ now' = now - 1
    /\ UNCHANGED <<config, cache, cacheLock, poisoned, cpc, carg, ret, stats>>
    /\ UNCHANGED trackerVars

-----------------------------------------------------------------------------
(* UtxoTracker: bitcoin/utxo_tracker.rs *)

(* The orders in which a HashMap may be iterated: every arrangement of S *)
RECURSIVE Orders(_)
Orders(S) ==
    IF S = {} THEN {<<>>}
    ELSE UNION {{<<x>> \o rest : rest \in Orders(S \ {x})} : x \in S}

SeqSet(q) == {q[i] : i \in 1..Len(q)}

(* self.utxos.lock().unwrap() returns the guard: the Mutex is free. Every  *)
(* operation drops the guard before it awaits or returns.                  *)
UtxoTracker_lock == trackerLock = None

(* UtxoTracker::get_utxo_status *)
UtxoTracker_get_utxo_status(txid) ==
    IF txid \in DOMAIN utxos THEN Some(utxos[txid].status) ELSE None

(* UtxoTracker::add_utxo *)
UtxoTracker_add_utxo(utxo, status) ==
    /\ UtxoTracker_lock
    /\ utxos' = MapInsert(utxos, utxo.txid, [utxo |-> utxo, status |-> status])
    /\ UNCHANGED <<spc, todo, snapshot, min_confirmations, trackerLock>>
    /\ UNCHANGED cacheVars

(* mark_utxo_spent that spends only an entry that is Active *)
UtxoTracker_mark_utxo_spent_active_only(txid) ==
    /\ UtxoTracker_lock
    /\ utxos' = IF txid \in DOMAIN utxos /\ utxos[txid].status = "Active"
                THEN [utxos EXCEPT ![txid].status = "Spent"]
                ELSE utxos
    /\ UNCHANGED <<spc, todo, snapshot, min_confirmations, trackerLock>>
    /\ UNCHANGED cacheVars

(* UtxoTracker::mark_utxo_spent *)
UtxoTracker_mark_utxo_spent(txid) ==
    /\ UtxoTracker_lock
    /\ utxos' = IF txid \in DOMAIN utxos
                THEN [utxos EXCEPT ![txid].status = "Spent"]
                ELSE utxos
    /\ UNCHANGED <<spc, todo, snapshot, min_confirmations, trackerLock>>
    /\ UNCHANGED cacheVars

(* values().filter(..).map(|(meta, _)| meta.amount_sats).sum() without the *)
(* filter                                                                  *)
RECURSIVE SumAmounts(_, _)
SumAmounts(m, S) ==
    IF S = {} THEN 0
    ELSE LET t == CHOOSE x \in S : TRUE
         IN  m[t].utxo.amount_sats + SumAmounts(m, S \ {t})

UtxoTracker_get_total_value_by_status_all(m, status) == SumAmounts(m, DOMAIN m)

(* UtxoTracker::get_total_value_by_status over the map m. The amounts are  *)
(* satoshi values, whose sum stays far below the 2^64 of the u64 result.   *)
UtxoTracker_get_total_value_by_status(m, status) ==
    SumAmounts(m, {t \in DOMAIN m : m[t].status = status})

(* The txids update_confirmations collects under the lock *)
PendingTxids(m) == {t \in DOMAIN m : m[t].status = "Pending"}

(* The txids handle_chain_reorg collects under the lock *)
ActiveTxids(m) == {t \in DOMAIN m : m[t].status = "Active"}

(* The loop of a sweep taking the same entry again and again *)
SweepAdvance_same_entry(h) == UNCHANGED <<todo, spc, snapshot>>

(* The end of a sweep's loop body: on to the next entry, or return *)
SweepAdvance(h) ==
    IF Len(todo[h]) > 1
    THEN /\ todo' = [todo EXCEPT ![h] = Tail(@)]
         /\ UNCHANGED <<spc, snapshot>>
    ELSE /\ todo' = [todo EXCEPT ![h] = <<>>]
         /\ spc' = [spc EXCEPT ![h] = "idle"]
         /\ snapshot' = [snapshot EXCEPT ![h] = {}]

(* update_confirmations keeping the guard of its first block for the rest  *)
(* of the sweep                                                            *)
UtxoTracker_update_confirmations_collect_keeping_guard(h, utxos_to_update) ==
    /\ spc[h] = "idle"
    /\ UtxoTracker_lock
    /\ utxos_to_update \in Orders(PendingTxids(utxos))
    /\ todo' = [todo EXCEPT ![h] = utxos_to_update]
    /\ snapshot' = [snapshot EXCEPT ![h] = SeqSet(utxos_to_update)]
    /\ spc' = [spc EXCEPT ![h] = IF utxos_to_update = <<>> THEN "idle"
                                 ELSE "update_confirmations"]
    /\ trackerLock' = IF utxos_to_update = <<>> THEN None ELSE Some(h)
    /\ UNCHANGED <<utxos, min_confirmations>>
    /\ UNCHANGED cacheVars

(* UtxoTracker::update_confirmations, the first block: snapshot the txids  *)
(* of the Pending entries, in the map's iteration order.                   *)
UtxoTracker_update_confirmations_collect(h, utxos_to_update) ==
    /\ spc[h] = "idle"
    /\ UtxoTracker_lock
    /\ utxos_to_update \in Orders(PendingTxids(utxos))
    /\ todo' = [todo EXCEPT ![h] = utxos_to_update]
    /\ snapshot' = [snapshot EXCEPT ![h] = SeqSet(utxos_to_update)]
    /\ spc' = [spc EXCEPT ![h] = IF utxos_to_update = <<>> THEN "idle"
                                 ELSE "update_confirmations"]
    /\ UNCHANGED <<utxos, min_confirmations, trackerLock>>
    /\ UNCHANGED cacheVars

(* ApplyConfirmations promoting only above the threshold *)
ApplyConfirmations_above(entry, confirmations, min) ==
    [utxo |-> [entry.utxo EXCEPT !.confirmations = confirmations],
     status |-> IF entry.status = "Pending" /\ confirmations > min
                THEN "Active" ELSE entry.status]

(* The entry after the Ok arm of update_confirmations *)
ApplyConfirmations(entry, confirmations, min) ==
    [utxo |-> [entry.utxo EXCEPT !.confirmations = confirmations],
     status |-> IF entry.status = "Pending" /\ confirmations >= min
                THEN "Active" ELSE entry.status]

(* update_confirmations returning from the sweep at the first failed fetch *)
UtxoTracker_update_confirmations_step_abort(h, reply) ==
    /\ spc[h] = "update_confirmations"
    /\ UtxoTracker_lock
    /\ LET txid == Head(todo[h])
       IN  utxos' = IF reply.ok /\ txid \in DOMAIN utxos
                    THEN [utxos EXCEPT ![txid] =
                             ApplyConfirmations(@, reply.val, min_confirmations)]
                    ELSE utxos
    /\ IF reply.ok
       THEN SweepAdvance(h)
       ELSE /\ todo' = [todo EXCEPT ![h] = <<>>]
            /\ spc' = [spc EXCEPT ![h] = "idle"]
            /\ snapshot' = [snapshot EXCEPT ![h] = {}]
    /\ UNCHANGED <<min_confirmations, trackerLock>>
    /\ UNCHANGED cacheVars

(* UtxoTracker::update_confirmations, one turn of the loop: the reply of   *)
(* get_confirmations for the next txid, applied under the lock.            *)
UtxoTracker_update_confirmations_step(h, reply) ==
    /\ spc[h] = "update_confirmations"
    /\ UtxoTracker_lock
    /\ LET txid == Head(todo[h])
       IN  utxos' = IF reply.ok /\ txid \in DOMAIN utxos
                    THEN [utxos EXCEPT ![txid] =
                             ApplyConfirmations(@, reply.val, min_confirmations)]
                    ELSE utxos
    /\ SweepAdvance(h)
    /\ UNCHANGED <<min_confirmations, trackerLock>>
    /\ UNCHANGED cacheVars

(* UtxoTracker::handle_chain_reorg, the first block: snapshot the txid of  *)
(* every Active entry. The clone of the record collected with it           *)
(* (utxo_data) is only the argument of the RPC, whose reply is drawn       *)
(* freely here, so it is not kept.                                         *)
UtxoTracker_handle_chain_reorg_collect(h, utxos_to_check) ==
    /\ spc[h] = "idle"
    /\ UtxoTracker_lock
    /\ utxos_to_check \in Orders(ActiveTxids(utxos))
    /\ todo' = [todo EXCEPT ![h] = utxos_to_check]
    /\ snapshot' = [snapshot EXCEPT ![h] = SeqSet(utxos_to_check)]
    /\ spc' = [spc EXCEPT ![h] = IF utxos_to_check = <<>> THEN "idle"
                                 ELSE "handle_chain_reorg"]
    /\ UNCHANGED <<utxos, min_confirmations, trackerLock>>
    /\ UNCHANGED cacheVars

(* new_status with a failed re-check read as "still Active" *)
new_status_keep_on_error(reply) == IF reply.ok THEN reply.val ELSE "Active"

(* The status handle_chain_reorg derives from the reply of get_utxo_status *)
new_status(reply) == IF reply.ok THEN reply.val ELSE "Invalid"

(* The update block of handle_chain_reorg clearing the record's count too *)
ApplyReorgStatus_resetting(entry, status) ==
    IF status # "Active"
    THEN [utxo |-> [entry.utxo EXCEPT !.confirmations = 0], status |-> status]
    ELSE entry

(* The entry after the update block of handle_chain_reorg *)
ApplyReorgStatus(entry, status) ==
    IF status # "Active" THEN [entry EXCEPT !.status = status] ELSE entry

(* UtxoTracker::handle_chain_reorg, one turn of the loop *)
UtxoTracker_handle_chain_reorg_step(h, reply) ==
    /\ spc[h] = "handle_chain_reorg"
    /\ UtxoTracker_lock
    /\ LET txid == Head(todo[h])
       IN  utxos' = IF txid \in DOMAIN utxos
                    THEN [utxos EXCEPT ![txid] = ApplyReorgStatus(@, new_status(reply))]
                    ELSE utxos
    /\ SweepAdvance(h)
    /\ UNCHANGED <<min_confirmations, trackerLock>>
    /\ UNCHANGED cacheVars

-----------------------------------------------------------------------------
(* A client of the tracker, as in tests/utxo_tracking.rs: it calls the     *)
(* tracker and keeps what it called and what came back.                    *)

Call(op, arg, val) == [op |-> op, arg |-> arg, val |-> val]

Client_add_utxo(utxo, status) ==
    /\ Len(calls) < MaxCalls
    /\ UtxoTracker_add_utxo(utxo, status)
    /\ calls' = Append(calls, Call("add_utxo", <<utxo, status>>, None))
    /\ UNCHANGED <<rpcVars, validateVars, extVars>>

Client_mark_utxo_spent(txid) ==
    /\ Len(calls) < MaxCalls
    /\ UtxoTracker_mark_utxo_spent(txid)
    /\ calls' = Append(calls, Call("mark_utxo_spent", <<txid>>, None))
    /\ UNCHANGED <<rpcVars, validateVars, extVars>>

Client_get_total_value_by_status(status) ==
    /\ Len(calls) < MaxCalls
    /\ UtxoTracker_lock
    /\ calls' = Append(calls, Call("get_total_value_by_status", <<status>>,
                    Some(UtxoTracker_get_total_value_by_status(utxos, status))))
    /\ UNCHANGED trackerVars
    /\ UNCHANGED cacheVars
    /\ UNCHANGED <<rpcVars, validateVars, extVars>>

-----------------------------------------------------------------------------
(* validate_utxo and the block info of a record: bitcoin/utxo.rs *)

(* The blocks the remote may name, and BlockHash::to_string: the hash in   *)
(* lower-case hex, as the remote writes it in `blockhash`                  *)
Blocks == {1, 2}
BlockHash_to_string(b) == IF b = 1 THEN "00000000000000000001" ELSE "00000000000000000002"
BlockHashStrings == {BlockHash_to_string(b) : b \in Blocks}

(* UtxoMeta::update_block_info *)
update_block_info(utxo, height, hash) ==
    [utxo EXCEPT !.block_height = Some(height), !.block_hash = Some(hash)]

(* needs_revalidation looking at the stored hash only *)
needs_revalidation_hash_only(utxo, current_block_hash) ==
    IF utxo.block_hash # None
    THEN utxo.block_hash[1] # current_block_hash
    ELSE FALSE

(* UtxoMeta::needs_revalidation *)
needs_revalidation(utxo, current_block_hash) ==
    IF utxo.block_hash # None
    THEN utxo.block_hash[1] # current_block_hash
    ELSE utxo.confirmations > 0

(* The replies to the queries of validate_utxo *)
BestBlockHashReplies == {Ok(b) : b \in Blocks} \cup {Err(e) : e \in RpcErrors}
StoredConfirmations == (0..MaxConf) \cup {RequiredConfirmations}
TxBlockInfoReplies ==
    {Ok(<<n, TEST_BLOCK_HEIGHT, h>>) : n \in StoredConfirmations, h \in BlockHashStrings}
        \cup {Err(e) : e \in RpcErrors}

ProgramError_Custom(code) == Err(code)

(* BitcoinRpcClient::update_utxo_confirmations on the record: the count is *)
(* stored, the block info is not touched.                                  *)
BitcoinRpcClient_update_utxo_confirmations(reply) ==
    /\ vpc = "idle"
    /\ vutxo' = IF reply.ok THEN [vutxo EXCEPT !.confirmations = reply.val] ELSE vutxo
    /\ UNCHANGED <<vpc, vret, vmsg>>

(* validate_utxo up to its second query: the reply of get_best_block_hash, *)
(* and the reset of a record that needs revalidation                       *)
validate_utxo_best_block_hash(reply) ==
    /\ vpc = "idle"
    /\ IF ~reply.ok
       THEN /\ vret' = Some(ProgramError_Custom(ERR_UTXO_VALIDATION))
            /\ vmsg' = {}
            /\ UNCHANGED <<vutxo, vpc>>
       ELSE /\ vpc' = "get_tx_block_info"
            /\ vret' = None
            /\ IF needs_revalidation(vutxo, BlockHash_to_string(reply.val))
               THEN /\ vmsg' = {"Chain reorganization detected, revalidating UTXO"}
                    /\ vutxo' = [vutxo EXCEPT !.confirmations = 0,
                                              !.block_height = None,
                                              !.block_hash = None]
               ELSE /\ vmsg' = {}
                    /\ UNCHANGED vutxo

(* validate_utxo, the reply of get_tx_block_info *)
validate_utxo_tx_block_info(reply) ==
    /\ vpc = "get_tx_block_info"
    /\ IF ~reply.ok
       THEN /\ vret' = Some(ProgramError_Custom(ERR_UTXO_VALIDATION))
            /\ vpc' = "idle"
            /\ UNCHANGED vutxo
       ELSE LET confirmations == reply.val[1]
                height == reply.val[2]
                hash == reply.val[3]
                counted == [vutxo EXCEPT !.confirmations = confirmations]
            IN  /\ vutxo' = IF confirmations > 0
                            THEN update_block_info(counted, height, hash)
                            ELSE counted
                /\ vpc' = "get_utxo_status"
                /\ UNCHANGED vret
    /\ UNCHANGED vmsg

(* validate_utxo, the reply of get_utxo_status and the verdict *)
validate_utxo_status(reply) ==
    /\ vpc = "get_utxo_status"
    /\ vpc' = "idle"
    /\ IF ~reply.ok
       THEN vret' = Some(ProgramError_Custom(ERR_UTXO_VALIDATION)) /\ UNCHANGED vmsg
       ELSE IF reply.val = "Active"
       THEN IF vutxo.confirmations < RequiredConfirmations
            THEN /\ vret' = Some(ProgramError_Custom(ERR_INSUFFICIENT_CONFIRMATIONS))
                 /\ vmsg' = vmsg \cup {"Insufficient confirmations"}
            ELSE vret' = Some(Ok("()")) /\ UNCHANGED vmsg
       ELSE /\ vret' = Some(ProgramError_Custom(ERR_UTXO_STATUS))
            /\ vmsg' = vmsg \cup {CASE reply.val = "Pending" -> "UTXO is still pending"
                                    [] reply.val = "Spent" -> "UTXO is already spent"
                                    [] reply.val = "Invalid" -> "UTXO is invalid"}
    /\ UNCHANGED vutxo

-----------------------------------------------------------------------------
(* Specifications *)

ValidateInit(records) ==
    /\ vutxo \in records
    /\ vpc = "idle"
    /\ vret = None
    /\ vmsg = {}

(* A runtime with no task blocked on a worker thread *)
SchedInit(ws) ==
    /\ workers \in ws
    /\ thread = [c \in Callers |-> 0]
    /\ lockThread = 0

(* MockBitcoinNode::new: no transaction and no utxo_set entry *)
MockInit ==
    /\ node = [tx |-> None, spent |-> [v \in 0..1 |-> None]]
    /\ mret = None
    /\ lret = None

(* An OVTState as the on-chain account can hold it *)
NavInit(navs, times) ==
    /\ nav_sats \in navs
    /\ last_nav_update \in times
    /\ nret = None

(* BitcoinRpcClient::with_cache_config (bitcoin_rpc.rs): no call made yet *)
ElectrsInit ==
    /\ epc = [at |-> "idle", utxo |-> None]
    /\ eret = None
    /\ eok = {}

ExtInit == SchedInit({1}) /\ MockInit /\ NavInit({0}, {0}) /\ ElectrsInit

RpcInit ==
    /\ chain = [known |-> FALSE, confirmations |-> 0, unspent |-> FALSE]
    /\ rcall = None
    /\ rpos = 0
    /\ rpcpc = "idle"
    /\ retries = 0
    /\ rconf = None
    /\ wire = <<>>
    /\ rret = None

ClientInit == calls = <<>>

CacheInit(sizes) ==
    /\ config \in [max_size : sizes,
                   refresh_interval : {RefreshInterval},
                   invalid_ttl : {InvalidTtl}]
    /\ cache = <<>>
    /\ cacheLock = None
    /\ poisoned = FALSE
    /\ cpc = [c \in Callers |-> "idle"]
    /\ carg = [c \in Callers |-> None]
    /\ ret = [c \in Callers |-> None]
    /\ stats = None
    /\ now = 0

TrackerInit(mins) ==
    /\ min_confirmations \in mins
    /\ utxos = <<>>
    /\ spc = [h \in Handles |-> "idle"]
    /\ todo = [h \in Handles |-> <<>>]
    /\ snapshot = [h \in Handles |-> {}]
    /\ trackerLock = None

(* The cache under every capacity, used by one task at a time *)
InitCache ==
    /\ CacheInit(0..MaxSize) /\ TrackerInit({MaxConf}) /\ RpcInit /\ ClientInit
    /\ ValidateInit({UtxoA0})
    /\ ExtInit

CacheNext ==
    \/ /\ \E c \in {"c1"}, u \in CacheUtxos : UtxoCache_get_utxo_status_lookup(c, u)
       /\ UNCHANGED <<rpcVars, calls, validateVars, extVars>>
    \/ /\ \E c \in {"c1"}, r \in StatusReplies, o \in OldestChoices(cache) :
             UtxoCache_get_utxo_status_reply(c, r, o)
       /\ UNCHANGED <<rpcVars, calls, validateVars, extVars>>
    \/ /\ \E h \in 0..1 : UtxoCache_handle_reorg(h)
       /\ UNCHANGED <<rpcVars, calls, validateVars, extVars>>
    \/ /\ UtxoCache_cleanup
       /\ UNCHANGED <<rpcVars, calls, validateVars, extVars>>
    \/ /\ Tick
       /\ UNCHANGED <<rpcVars, calls, validateVars, extVars>>

SpecCache == InitCache /\ [][CacheNext]_vars

(* The tracker under every confirmation threshold, with sweeps running on *)
(* two handles that share the map                                          *)
InitTracker ==
    /\ CacheInit({MaxSize}) /\ TrackerInit(0..MaxConf) /\ RpcInit /\ ClientInit
    /\ ValidateInit({UtxoA0})
    /\ ExtInit

TrackerNext ==
    \/ /\ \E u \in TrackerUtxos, s \in UtxoStatus : UtxoTracker_add_utxo(u, s)
       /\ UNCHANGED <<rpcVars, calls, validateVars, extVars>>
    \/ /\ \E t \in TrackerTxids : UtxoTracker_mark_utxo_spent(t)
       /\ UNCHANGED <<rpcVars, calls, validateVars, extVars>>
    \/ /\ \E h \in Handles, q \in Orders(PendingTxids(utxos)) :
             UtxoTracker_update_confirmations_collect(h, q)
       /\ UNCHANGED <<rpcVars, calls, validateVars, extVars>>
    \/ /\ \E h \in Handles, r \in ConfirmationResults :
             UtxoTracker_update_confirmations_step(h, r)
       /\ UNCHANGED <<rpcVars, calls, validateVars, extVars>>
    \/ /\ \E h \in Handles, q \in Orders(ActiveTxids(utxos)) :
             UtxoTracker_handle_chain_reorg_collect(h, q)
       /\ UNCHANGED <<rpcVars, calls, validateVars, extVars>>
    \/ /\ \E h \in Handles, r \in StatusReplies :
             UtxoTracker_handle_chain_reorg_step(h, r)
       /\ UNCHANGED <<rpcVars, calls, validateVars, extVars>>

SpecTracker == InitTracker /\ [][TrackerNext]_vars

(* The same, with every ChainClient query of a sweep returning in the end: *)
(* the await of the loop body is over after finitely many steps of others. *)
SweepStep(h) ==
    /\ \/ \E r \in ConfirmationResults : UtxoTracker_update_confirmations_step(h, r)
       \/ \E r \in StatusReplies : UtxoTracker_handle_chain_reorg_step(h, r)
    /\ UNCHANGED <<rpcVars, calls, validateVars, extVars>>

SpecTrackerFair ==
    InitTracker /\ [][TrackerNext]_vars /\ \A h \in Handles : WF_vars(SweepStep(h))

(* Entries added as Pending, once each, and swept by update_confirmations  *)
(* on two handles at a time, the remote's count changing from one query to *)
(* the next; an entry can be spent or re-checked by a reorg sweep as well  *)
InitSweeps ==
    /\ CacheInit({MaxSize}) /\ TrackerInit(0..MaxConf) /\ RpcInit /\ ClientInit
    /\ ValidateInit({UtxoA0})
    /\ ExtInit

SweepsNext ==
    \/ /\ \E u \in TrackerUtxos :
             u.txid \notin DOMAIN utxos /\ UtxoTracker_add_utxo(u, "Pending")
       /\ UNCHANGED <<rpcVars, calls, validateVars, extVars>>
    \/ /\ \E t \in TrackerTxids : UtxoTracker_mark_utxo_spent(t)
       /\ UNCHANGED <<rpcVars, calls, validateVars, extVars>>
    \/ /\ \E h \in Handles, q \in Orders(PendingTxids(utxos)) :
             UtxoTracker_update_confirmations_collect(h, q)
       /\ UNCHANGED <<rpcVars, calls, validateVars, extVars>>
    \/ /\ \E h \in Handles, r \in ConfirmationResults :
             UtxoTracker_update_confirmations_step(h, r)
       /\ UNCHANGED <<rpcVars, calls, validateVars, extVars>>
    \/ /\ \E h \in Handles, q \in Orders(ActiveTxids(utxos)) :
             UtxoTracker_handle_chain_reorg_collect(h, q)
       /\ UNCHANGED <<rpcVars, calls, validateVars, extVars>>
    \/ /\ \E h \in Handles, r \in StatusReplies :
             UtxoTracker_handle_chain_reorg_step(h, r)
       /\ UNCHANGED <<rpcVars, calls, validateVars, extVars>>

SpecSweeps == InitSweeps /\ [][SweepsNext]_vars

(* The tracker called by one client, with no sweep running *)
InitClient ==
    /\ CacheInit({MaxSize}) /\ TrackerInit({MaxConf}) /\ RpcInit /\ ClientInit
    /\ ValidateInit({UtxoA0})
    /\ ExtInit

ClientNext ==
    \/ \E u \in TrackerUtxos, s \in UtxoStatus : Client_add_utxo(u, s)
    \/ \E t \in TrackerTxids : Client_mark_utxo_spent(t)
    \/ \E s \in UtxoStatus : Client_get_total_value_by_status(s)

SpecClient == InitClient /\ [][ClientNext]_vars

(* The chain client answering one call after another, against every remote *)
(* and every fault of a request                                            *)
InitRpc ==
    /\ CacheInit({MaxSize}) /\ TrackerInit({MaxConf}) /\ RpcInit /\ ClientInit
    /\ ValidateInit({UtxoA0})
    /\ ExtInit

RpcNext ==
    \/ /\ \E m \in RpcMethods, c \in Chains : BitcoinRpcClient_call(m, c)
       /\ UNCHANGED <<cacheVars, trackerVars, calls, validateVars, extVars>>
    \/ /\ \E f \in Faults : BitcoinRpcClient_make_rpc_call_attempt(f)
       /\ UNCHANGED <<cacheVars, trackerVars, calls, validateVars, extVars>>
    \/ /\ BitcoinRpcClient_make_rpc_call_sleep
       /\ UNCHANGED <<cacheVars, trackerVars, calls, validateVars, extVars>>

SpecRpc == InitRpc /\ [][RpcNext]_vars

(* The cache shared by two tasks that call it again and again, with the    *)
(* chain client behind it, a remote whose view is fixed, and a wall clock  *)
(* that can be set back                                                    *)
SharedUtxos == {UtxoA0, UtxoB0}

RemoteInit ==
    /\ chain \in Chains
    /\ rcall = None
    /\ rpos = 0
    /\ rpcpc = "idle"
    /\ retries = 0
    /\ rconf = None
    /\ wire = <<>>
    /\ rret = None

InitShared ==
    /\ CacheInit(1..MaxSize) /\ TrackerInit({MaxConf}) /\ RemoteInit /\ ClientInit
    /\ ValidateInit({UtxoA0})
    /\ ExtInit

SharedNext ==
    \/ /\ \E c \in Callers, u \in SharedUtxos : UtxoCache_get_utxo_status_lookup(c, u)
       /\ UNCHANGED <<rpcVars, calls, validateVars, extVars>>
    \/ /\ \E c \in Callers, r \in StatusResultsOf[chain],
             o \in OldestChoices(cache) :
             UtxoCache_get_utxo_status_reply(c, r, o)
       /\ UNCHANGED <<rpcVars, calls, validateVars, extVars>>
    \/ /\ UtxoCache_handle_reorg(0)
       /\ UNCHANGED <<rpcVars, calls, validateVars, extVars>>
    \/ /\ UtxoCache_cleanup
       /\ UNCHANGED <<rpcVars, calls, validateVars, extVars>>
    \/ /\ UtxoCache_get_stats
       /\ UNCHANGED <<rpcVars, calls, validateVars, extVars>>
    \/ /\ \E c \in Callers : UtxoCache_lock_poisoned(c)
       /\ UNCHANGED <<rpcVars, calls, validateVars, extVars>>
    \/ /\ Tick
       /\ UNCHANGED <<rpcVars, calls, validateVars, extVars>>
    \/ /\ ClockSetBack
       /\ UNCHANGED <<rpcVars, calls, validateVars, extVars>>

SpecShared == InitShared /\ [][SharedNext]_vars

(* test_concurrent_access: two tasks, each calling the cache once for the  *)
(* same UTXO, which the cache has never seen; the remote's view is fixed.  *)
InitRace ==
    /\ CacheInit(0..MaxSize) /\ TrackerInit({MaxConf}) /\ RemoteInit /\ ClientInit
    /\ ValidateInit({UtxoA0})
    /\ ExtInit

RaceNext ==
    \/ /\ \E c \in Callers :
             ret[c] = None /\ UtxoCache_get_utxo_status_lookup(c, UtxoA0)
       /\ UNCHANGED <<rpcVars, calls, validateVars, extVars>>
    \/ /\ \E c \in Callers, r \in StatusResultsOf[chain],
             o \in OldestChoices(cache) :
             UtxoCache_get_utxo_status_reply(c, r, o)
       /\ UNCHANGED <<rpcVars, calls, validateVars, extVars>>
    \/ /\ UtxoCache_handle_reorg(0)
       /\ UNCHANGED <<rpcVars, calls, validateVars, extVars>>
    \/ /\ UtxoCache_cleanup
       /\ UNCHANGED <<rpcVars, calls, validateVars, extVars>>
    \/ /\ \E c \in Callers : ret[c] = None /\ UtxoCache_lock_poisoned(c)
       /\ UNCHANGED <<rpcVars, calls, validateVars, extVars>>
    \/ /\ Tick
       /\ UNCHANGED <<rpcVars, calls, validateVars, extVars>>
    \/ /\ ClockSetBack
       /\ UNCHANGED <<rpcVars, calls, validateVars, extVars>>

SpecRace == InitRace /\ [][RaceNext]_vars

(* Two tasks of a runtime with one or two worker threads, each calling the *)
(* cache once. A task runs on a worker thread from one suspension point to *)
(* the next; Mutex::lock() is a blocking call, so that a task waiting in   *)
(* it keeps its worker thread, while the task suspended at the query holds *)
(* the guard and no thread.                                                *)
FreeThreads == {t \in 1..workers : \A c \in Callers : thread[c] # t}

(* Mutex::lock while the guard is held: the thread waits; std leaves open  *)
(* what happens on the thread that locked it (it does not return: it       *)
(* deadlocks or panics).                                                   *)
lock_held_outcomes(t) ==
    IF t = lockThread THEN {"blocked", "panicked"} ELSE {"blocked"}

(* The task is polled, finds the Mutex free, and runs to the query or to   *)
(* its return                                                              *)
Sched_get_utxo_status_lookup(c, u, t) ==
    /\ t \in FreeThreads
    /\ ret[c] = None
    /\ UtxoCache_get_utxo_status_lookup(c, u)
    /\ lockThread' = t
    /\ UNCHANGED <<workers, thread>>

(* The task is polled and finds the Mutex held *)
Sched_lock_held(c, t, outcome) ==
    /\ t \in FreeThreads
    /\ ret[c] = None
    /\ cpc[c] = "idle"
    /\ cacheLock # None
    /\ outcome \in lock_held_outcomes(t)
    /\ cpc' = [cpc EXCEPT ![c] = outcome]
    /\ thread' = [thread EXCEPT ![c] = IF outcome = "blocked" THEN t ELSE 0]
    /\ UNCHANGED <<config, cache, cacheLock, poisoned, carg, ret, stats, now>>
    /\ UNCHANGED <<workers, lockThread>>
    /\ UNCHANGED trackerVars

(* The guard was dropped: the lock() the task waits in can return, and the *)
(* task go on from there                                                   *)
Sched_lock_released(c) ==
    /\ cpc[c] = "blocked"
    /\ cacheLock = None
    /\ cpc' = [cpc EXCEPT ![c] = "idle"]
    /\ thread' = [thread EXCEPT ![c] = 0]
    /\ UNCHANGED <<config, cache, cacheLock, poisoned, carg, ret, stats, now>>
    /\ UNCHANGED <<workers, lockThread>>
    /\ UNCHANGED trackerVars

(* The remote has answered: the task is woken, and goes on once a worker   *)
(* thread polls it                                                         *)
Sched_get_utxo_status_reply(c, r, o, t) ==
    /\ t \in FreeThreads
    /\ UtxoCache_get_utxo_status_reply(c, r, o)
    /\ UNCHANGED schedVars

InitSched ==
    /\ CacheInit(1..MaxSize) /\ TrackerInit({MaxConf}) /\ RemoteInit /\ ClientInit
    /\ ValidateInit({UtxoA0})
    /\ SchedInit(1..MaxWorkers) /\ MockInit /\ NavInit({0}, {0}) /\ ElectrsInit

SchedNext ==
    \/ /\ \E c \in Callers, u \in SharedUtxos, t \in 1..MaxWorkers :
             Sched_get_utxo_status_lookup(c, u, t)
       /\ UNCHANGED <<rpcVars, calls, validateVars, mockVars, navVars, electrsVars>>
    \/ /\ \E c \in Callers, t \in 1..MaxWorkers, x \in {"blocked", "panicked"} :
             Sched_lock_held(c, t, x)
       /\ UNCHANGED <<rpcVars, calls, validateVars, mockVars, navVars, electrsVars>>
    \/ /\ \E c \in Callers : Sched_lock_released(c)
       /\ UNCHANGED <<rpcVars, calls, validateVars, mockVars, navVars, electrsVars>>
    \/ /\ \E c \in Callers, r \in StatusResultsOf[chain],
             o \in OldestChoices(cache), t \in 1..MaxWorkers :
             Sched_get_utxo_status_reply(c, r, o, t)
       /\ UNCHANGED <<rpcVars, calls, validateVars, mockVars, navVars, electrsVars>>

(* A task that can be polled is polled in the end, and the remote answers  *)
(* every request                                                           *)
SchedStep(c) ==
    /\ \/ \E u \in SharedUtxos, t \in 1..MaxWorkers :
             Sched_get_utxo_status_lookup(c, u, t)
       \/ \E t \in 1..MaxWorkers, x \in {"blocked", "panicked"} :
             Sched_lock_held(c, t, x)
       \/ Sched_lock_released(c)
       \/ \E r \in StatusResultsOf[chain], o \in OldestChoices(cache),
             t \in 1..MaxWorkers : Sched_get_utxo_status_reply(c, r, o, t)
    /\ UNCHANGED <<rpcVars, calls, validateVars, mockVars, navVars, electrsVars>>

SpecSched ==
    InitSched /\ [][SchedNext]_vars /\ \A c \in Callers : WF_vars(SchedStep(c))

(* The in-memory node of bitcoin/mock/mod.rs, holding one transaction with *)
(* one output, and the two clients asked for the status of its outputs:    *)
(* the mock client reads the node, the live client asks a remote that is   *)
(* in the node's state and answers every request.                          *)
MockUtxos == {UtxoA0, UtxoA1}

(* MockBitcoinNode::add_transaction(txid, confirmations, outputs, is_valid) *)
(* with one output                                                         *)
MockBitcoinNode_add_transaction(confirmations, is_valid) ==
    LET is_reorg == node.tx # None /\ node.tx[1].is_valid /\ ~is_valid
    IN  /\ node' = [tx |-> Some([confirmations |-> confirmations,
                                  is_valid |-> is_valid]),
                    spent |-> [node.spent EXCEPT ![0] =
                                  IF is_reorg \/ ~is_valid THEN None
                                  ELSE IF @ = None THEN Some(FALSE) ELSE @]]
        /\ mret' = None
        /\ lret' = None

(* MockBitcoinNode::spend_utxo *)
MockBitcoinNode_spend_utxo(vout) ==
    /\ node' = [node EXCEPT !.spent[vout] = Some(TRUE)]
    /\ mret' = None
    /\ lret' = None

(* MockBitcoinRpcClient::get_utxo_status *)
MockBitcoinRpcClient_status(n, utxo) ==
    IF n.tx = None THEN Ok("Invalid")
    ELSE IF ~n.tx[1].is_valid THEN Ok("Invalid")
    ELSE IF n.spent[utxo.vout] = Some(TRUE) THEN Ok("Spent")
    ELSE IF n.spent[utxo.vout] = Some(FALSE)
    THEN IF n.tx[1].confirmations = 0 THEN Ok("Pending") ELSE Ok("Active")
    ELSE Ok("Invalid")

MockBitcoinRpcClient_get_utxo_status(utxo) ==
    /\ mret' = Some([utxo |-> utxo, val |-> MockBitcoinRpcClient_status(node, utxo)])
    /\ UNCHANGED <<node, lret>>

(* What a remote node in the state n knows of the output: a transaction    *)
(* that is absent or invalid is not served, gettxout finds unspent outputs *)
ChainOf(n, utxo) ==
    IF n.tx = None \/ ~n.tx[1].is_valid
    THEN [known |-> FALSE, confirmations |-> 0, unspent |-> FALSE]
    ELSE [known |-> TRUE, confirmations |-> n.tx[1].confirmations,
          unspent |-> n.spent[utxo.vout] = Some(FALSE)]

(* What make_rpc_call returns when the remote answers the request *)
make_rpc_call_answered(method, c) == execute_rpc_call(Response(method, c, "none"))

(* BitcoinRpcClient::get_utxo_status (bitcoin/rpc.rs) against that remote *)
BitcoinRpcClient_status(c) ==
    BitcoinRpcClient_get_utxo_status(
        make_rpc_call_answered("getrawtransaction", c),
        BitcoinRpcClient_get_confirmations(
            make_rpc_call_answered("getrawtransaction", c),
            make_rpc_call_answered("gettxconfirmations", c)),
        make_rpc_call_answered("gettxout", c))

Live_get_utxo_status(utxo) ==
    /\ lret' = Some([utxo |-> utxo, val |-> BitcoinRpcClient_status(ChainOf(node, utxo))])
    /\ UNCHANGED <<node, mret>>

InitMock ==
    /\ CacheInit({MaxSize}) /\ TrackerInit({MaxConf}) /\ RpcInit /\ ClientInit
    /\ ValidateInit({UtxoA0})
    /\ SchedInit({1}) /\ MockInit /\ NavInit({0}, {0}) /\ ElectrsInit

MockNext ==
    \/ /\ \E n \in 0..MaxConf, b \in BOOLEAN : MockBitcoinNode_add_transaction(n, b)
       /\ UNCHANGED <<cacheVars, trackerVars, rpcVars, calls, validateVars>>
       /\ UNCHANGED <<schedVars, navVars, electrsVars>>
    \/ /\ \E v \in 0..1 : MockBitcoinNode_spend_utxo(v)
       /\ UNCHANGED <<cacheVars, trackerVars, rpcVars, calls, validateVars>>
       /\ UNCHANGED <<schedVars, navVars, electrsVars>>
    \/ /\ \E u \in MockUtxos : MockBitcoinRpcClient_get_utxo_status(u)
       /\ UNCHANGED <<cacheVars, trackerVars, rpcVars, calls, validateVars>>
       /\ UNCHANGED <<schedVars, navVars, electrsVars>>
    \/ /\ \E u \in MockUtxos : Live_get_utxo_status(u)
       /\ UNCHANGED <<cacheVars, trackerVars, rpcVars, calls, validateVars>>
       /\ UNCHANGED <<schedVars, navVars, electrsVars>>

SpecMock == InitMock /\ [][MockNext]_vars

(* The client of bitcoin_rpc.rs, which owns a UtxoCache and asks it first, *)
(* passing itself as the cache's chain client; one task calls it, again    *)
(* and again, for UTXOs with well-formed and with malformed txids (those   *)
(* of bitcoin_rpc_test.rs are not hex).                                    *)
ElectrsUtxos == {UtxoA0, UtxoB0, UtxoShort, UtxoBad}
ElectrsMinConfirmations == 1

At(place, utxo) == [at |-> place, utxo |-> utxo]

(* get_utxo_status up to the return of self.cache.get_utxo_status(self,    *)
(* utxo), or to the call the cache makes of rpc.get_utxo_status(utxo) on   *)
(* this client when it has no fresh entry                                  *)
Electrs_get_utxo_status(utxo) ==
    /\ epc.at = "idle"
    /\ UtxoCache_get_utxo_status_lookup("c1", utxo)
    /\ IF cpc'["c1"] = "rpc"
       THEN /\ epc' = At("nested", Some(utxo))
            /\ eret' = None
            /\ UNCHANGED eok
       ELSE IF cpc'["c1"] = "panicked"
       THEN /\ epc' = At("panicked", Some(utxo))
            /\ eret' = None
            /\ UNCHANGED eok
       ELSE IF ret'["c1"][1].ok
       THEN /\ epc' = At("idle", None)
            /\ eret' = ret'["c1"]
            /\ eok' = eok \cup {utxo}
       ELSE /\ epc' = At("http", Some(utxo))
            /\ eret' = None
            /\ UNCHANGED eok

(* The nested get_utxo_status starts with the same cache call, whose       *)
(* self.cache.lock() finds the Mutex held by the task's own outer call: it *)
(* waits for a guard that only its caller can drop, or panics, and the     *)
(* unwinding drops the outer guard and poisons the Mutex                   *)
Electrs_get_utxo_status_nested(outcome) ==
    /\ epc.at = "nested"
    /\ cacheLock = Some("c1")
    /\ outcome \in lock_held_outcomes(lockThread)
    /\ IF outcome = "blocked"
       THEN /\ epc' = [epc EXCEPT !.at = "deadlocked"]
            /\ UNCHANGED <<cacheLock, poisoned, cpc>>
       ELSE /\ epc' = [epc EXCEPT !.at = "panicked"]
            /\ cacheLock' = None
            /\ poisoned' = TRUE
            /\ cpc' = [cpc EXCEPT !["c1"] = "panicked"]
    /\ UNCHANGED <<config, cache, carg, ret, stats, now>>
    /\ UNCHANGED <<eret, eok>>
    /\ UNCHANGED trackerVars

(* The response to GET /tx/{txid}/outspend/{vout} *)
OutspendReplies ==
    {[sent |-> FALSE, status |-> 0, body |-> None],
     [sent |-> TRUE, status |-> 404, body |-> None],
     [sent |-> TRUE, status |-> 200, body |-> None]} \cup
    {[sent |-> TRUE, status |-> 200,
      body |-> Some([spent |-> b, confirmations |-> n])] :
        b \in BOOLEAN, n \in {None} \cup {Some(k) : k \in 0..MaxConf}}

(* get_utxo_status from the response on *)
Electrs_status(response) ==
    IF ~response.sent THEN Err("ConnectionFailed")
    ELSE IF response.status = 404 THEN Ok("Invalid")
    ELSE IF response.body = None THEN Err("InvalidResponse")
    ELSE IF response.body[1].spent THEN Ok("Spent")
    ELSE IF /\ response.body[1].confirmations # None
            /\ response.body[1].confirmations[1] >= ElectrsMinConfirmations
    THEN Ok("Active")
    ELSE Ok("Pending")

(* The cache returned an error: the status is fetched from the service and *)
(* returned; the cache is not written                                      *)
Electrs_get_utxo_status_http(response) ==
    /\ epc.at = "http"
    /\ eret' = Some(Electrs_status(response))
    /\ eok' = IF Electrs_status(response).ok THEN eok \cup {epc.utxo[1]} ELSE eok
    /\ epc' = At("idle", None)
    /\ UNCHANGED cacheVars
    /\ UNCHANGED trackerVars

(* get_cache_stats *)
Electrs_get_cache_stats ==
    /\ epc.at = "idle"
    /\ UtxoCache_get_stats
    /\ UNCHANGED electrsVars

InitElectrs ==
    /\ CacheInit(1..MaxSize) /\ TrackerInit({MaxConf}) /\ RpcInit /\ ClientInit
    /\ ValidateInit({UtxoA0})
    /\ SchedInit({1}) /\ MockInit /\ NavInit({0}, {0}) /\ ElectrsInit

ElectrsNext ==
    \/ /\ \E u \in ElectrsUtxos : Electrs_get_utxo_status(u)
       /\ UNCHANGED <<rpcVars, calls, validateVars, schedVars, mockVars, navVars>>
    \/ /\ \E x \in {"blocked", "panicked"} : Electrs_get_utxo_status_nested(x)
       /\ UNCHANGED <<rpcVars, calls, validateVars, schedVars, mockVars, navVars>>
    \/ /\ \E r \in OutspendReplies : Electrs_get_utxo_status_http(r)
       /\ UNCHANGED <<rpcVars, calls, validateVars, schedVars, mockVars, navVars>>
    \/ /\ Electrs_get_cache_stats
       /\ UNCHANGED <<rpcVars, calls, validateVars, schedVars, mockVars, navVars>>
    \/ /\ Tick
       /\ UNCHANGED <<rpcVars, calls, validateVars, extVars>>

SpecElectrs == InitElectrs /\ [][ElectrsNext]_vars

(* OVTState (state.rs): the NAV and the time of its last update, updated   *)
(* again and again. The u64 fields are WordBits wide; `-` and `*` on them  *)
(* panic on overflow in a build with overflow checks and wrap in one       *)
(* without.                                                                *)
Word == 2 ^ WordBits
Builds == {"checked", "wrapping"}
MinUpdateDelay == 15
MaxIncreasePercent == 400
MaxDecreasePercent == 80

NavInputs ==
    {0, 1, 20, 100, 500, 501, 100 + (Word \div 100) + 1, Word - 701, Word - 1}
ClockInputs == {0, 14, 15, 16, 30, 31, Word - 1}

(* a - b on u64 *)
sub_u64(a, b, build) ==
    IF a >= b THEN Ok(a - b)
    ELSE IF build = "checked" THEN Err("panic")
    ELSE Ok((a - b + Word) % Word)

(* a * b on u64 *)
mul_u64(a, b, build) ==
    IF a * b < Word THEN Ok(a * b)
    ELSE IF build = "checked" THEN Err("panic")
    ELSE Ok((a * b) % Word)

(* OVTState::validate_nav_update *)
validate_nav_update(nav, new_nav_sats, build) ==
    IF new_nav_sats = 0 THEN Err("InvalidNAVUpdate")
    ELSE IF nav = 0 THEN Ok("unit")
    ELSE LET diff == IF new_nav_sats > nav THEN new_nav_sats - nav
                     ELSE nav - new_nav_sats
             product == mul_u64(diff, 100, build)
         IN  IF ~product.ok THEN product
             ELSE LET change == product.val \div nav
                  IN  IF \/ new_nav_sats > nav /\ change > MaxIncreasePercent
                         \/ new_nav_sats < nav /\ change > MaxDecreasePercent
                      THEN Err("InvalidNAVUpdate")
                      ELSE Ok("unit")

(* OVTState::update_nav; a panic ends the instruction and writes nothing *)
update_nav(btc_price_sats, current_time, build) ==
    LET elapsed == sub_u64(current_time, last_nav_update, build)
        valid == validate_nav_update(nav_sats, btc_price_sats, build)
    IN  IF ~elapsed.ok
        THEN /\ nret' = Some(elapsed)
             /\ UNCHANGED <<nav_sats, last_nav_update>>
        ELSE IF elapsed.val < MinUpdateDelay
        THEN /\ nret' = Some(Err("OperationTimeout"))
             /\ UNCHANGED <<nav_sats, last_nav_update>>
        ELSE IF ~valid.ok
        THEN /\ nret' = Some(valid)
             /\ UNCHANGED <<nav_sats, last_nav_update>>
        ELSE /\ nav_sats' = btc_price_sats
             /\ last_nav_update' = current_time
             /\ nret' = Some(Ok("unit"))

InitNav ==
    /\ CacheInit({MaxSize}) /\ TrackerInit({MaxConf}) /\ RpcInit /\ ClientInit
    /\ ValidateInit({UtxoA0})
    /\ SchedInit({1}) /\ MockInit /\ NavInit({0}, {0}) /\ ElectrsInit

NavNext ==
    \/ /\ \E n \in NavInputs, t \in ClockInputs, b \in Builds : update_nav(n, t, b)
       /\ UNCHANGED <<cacheVars, trackerVars, rpcVars, calls, validateVars>>
       /\ UNCHANGED <<schedVars, mockVars, electrsVars>>

SpecNav == InitNav /\ [][NavNext]_vars

(* validate_utxo called again and again on one record, whose confirmation *)
(* count is also updated on its own, against every reply of the remote     *)
InitValidate ==
    /\ CacheInit({MaxSize}) /\ TrackerInit({MaxConf}) /\ RpcInit /\ ClientInit
    /\ ValidateInit({UtxoA0, UtxoB0})
    /\ ExtInit

ValidateNext ==
    \/ /\ \E r \in ConfirmationResults : BitcoinRpcClient_update_utxo_confirmations(r)
       /\ UNCHANGED <<cacheVars, trackerVars, rpcVars, calls, extVars>>
    \/ /\ \E r \in BestBlockHashReplies : validate_utxo_best_block_hash(r)
       /\ UNCHANGED <<cacheVars, trackerVars, rpcVars, calls, extVars>>
    \/ /\ \E r \in TxBlockInfoReplies : validate_utxo_tx_block_info(r)
       /\ UNCHANGED <<cacheVars, trackerVars, rpcVars, calls, extVars>>
    \/ /\ \E r \in StatusReplies : validate_utxo_status(r)
       /\ UNCHANGED <<cacheVars, trackerVars, rpcVars, calls, extVars>>

SpecValidate == InitValidate /\ [][ValidateNext]_vars

-----------------------------------------------------------------------------
(* Properties of the status cache, checked under SpecCache *)

CacheSize == Cardinality(DOMAIN cache)

(* C1: after any sequence of cache operations on a cache configured with   *)
(* capacity N (max_size), the cache never holds more than N entries.       *)
C1_CacheWithinCapacity == CacheSize <= config.max_size

(* The same bound for the capacities of 1 and more, and the one entry a    *)
(* cache of capacity 0 keeps.                                              *)
CacheWithinPositiveCapacity ==
    IF config.max_size >= 1 THEN CacheSize <= config.max_size ELSE CacheSize <= 1

(* C2: when get_utxo_status inserts a key that is not cached into a cache  *)
(* that holds max_size entries, exactly one existing entry is removed, it  *)
(* is one with the smallest last_accessed, and every other entry is kept.  *)
InsertsNewKeyAtCapacity(c, reply) ==
    /\ reply.ok
    /\ cpc[c] = "rpc"
    /\ KeyOf[carg[c][1]].val \notin DOMAIN cache
    /\ CacheSize = config.max_size

EvictedExactlyTheOldest(key) ==
    \E k \in DOMAIN cache :
        /\ \A j \in DOMAIN cache : cache[k].last_accessed <= cache[j].last_accessed
        /\ DOMAIN cache' = (DOMAIN cache \ {k}) \cup {key}
        /\ \A j \in DOMAIN cache \ {k} : cache'[j] = cache[j]

C2_EvictsLeastRecentlyAccessed ==
    [][\A c \in Callers, r \in StatusReplies, o \in OldestChoices(cache) :
          (InsertsNewKeyAtCapacity(c, r) /\ UtxoCache_get_utxo_status_reply(c, r, o))
              => EvictedExactlyTheOldest(KeyOf[carg[c][1]].val)]_vars

(* The eviction as the code performs it, for every capacity: a cache that  *)
(* holds at least one entry and at least max_size entries loses exactly    *)
(* one of its least recently accessed entries to the insert of a new key.  *)
EvictsLeastRecentlyAccessedIfAny ==
    [][\A c \in Callers, r \in StatusReplies, o \in OldestChoices(cache) :
          (/\ r.ok /\ cpc[c] = "rpc"
           /\ KeyOf[carg[c][1]].val \notin DOMAIN cache
           /\ CacheSize >= config.max_size /\ CacheSize >= 1
           /\ UtxoCache_get_utxo_status_reply(c, r, o))
              => EvictedExactlyTheOldest(KeyOf[carg[c][1]].val)]_vars

(* C3: get_utxo_status queries the ChainClient iff no entry exists for the *)
(* key or the entry needs refresh (Active/Pending: age since last_updated  *)
(* >= refresh_interval; Spent/Invalid: age >= invalid_ttl); a fresh entry  *)
(* is answered with its stored status, without a query, and nothing in the *)
(* cache changes but that entry's last_accessed.                           *)
Age(entry) == now - entry.last_updated

Stale(entry) ==
    \/ entry.status \in {"Active", "Pending"} /\ Age(entry) >= config.refresh_interval
    \/ entry.status \in {"Spent", "Invalid"} /\ Age(entry) >= config.invalid_ttl

OnlyLastAccessedChanged(k) ==
    /\ DOMAIN cache' = DOMAIN cache
    /\ \A j \in DOMAIN cache \ {k} : cache'[j] = cache[j]
    /\ cache'[k].utxo = cache[k].utxo
    /\ cache'[k].status = cache[k].status
    /\ cache'[k].last_updated = cache[k].last_updated

C3_QueryIffMissingOrStale ==
    [][\A c \in Callers, u \in CacheUtxos :
          (KeyOf[u].ok /\ UtxoCache_get_utxo_status_lookup(c, u)) =>
              LET k == KeyOf[u].val
                  fresh == k \in DOMAIN cache /\ ~Stale(cache[k])
              IN  /\ (cpc'[c] = "rpc") <=> ~fresh
                  /\ fresh => /\ ret'[c] = Some(Ok(cache[k].status))
                              /\ cacheLock' = None
                              /\ OnlyLastAccessedChanged(k)]_vars

(* A Spent entry younger than invalid_ttl that was accessed after it was   *)
(* stored, by the call that has just returned its status                   *)
C3_Witness ==
    \E k \in DOMAIN cache :
        /\ cache[k].status = "Spent"
        /\ cache[k].last_accessed > cache[k].last_updated
        /\ now - cache[k].last_updated < config.invalid_ttl
        /\ cache[k].last_accessed = now
        /\ ret["c1"] = Some(Ok("Spent"))
        /\ cpc["c1"] = "idle"

-----------------------------------------------------------------------------
(* Properties of the tracker, checked under SpecTracker *)

UpdateConfirmationsStep ==
    \E h \in Handles, r \in ConfirmationResults :
        UtxoTracker_update_confirmations_step(h, r)

HandleChainReorgStep ==
    \E h \in Handles, r \in StatusReplies : UtxoTracker_handle_chain_reorg_step(h, r)

(* C4: once an entry's status is Spent, no update_confirmations or         *)
(* handle_chain_reorg step changes it to Active or Pending.                *)
C4_SpentNeverRevertsBySweep ==
    [][(UpdateConfirmationsStep \/ HandleChainReorgStep) =>
          \A t \in DOMAIN utxos :
              utxos[t].status = "Spent" => utxos'[t].status \notin {"Active", "Pending"}]_vars

(* C5: update_confirmations promotes a Pending entry to Active iff the     *)
(* fetched count is >= min_confirmations; below it the entry stays Pending *)
(* and its stored confirmation count is set to the fetched count.          *)
C5_PromotesIffThresholdReached ==
    [][\A h \in Handles, r \in ConfirmationResults :
          (/\ r.ok
           /\ spc[h] = "update_confirmations"
           /\ Head(todo[h]) \in DOMAIN utxos
           /\ utxos[Head(todo[h])].status = "Pending"
           /\ UtxoTracker_update_confirmations_step(h, r)) =>
              LET t == Head(todo[h])
              IN  /\ (utxos'[t].status = "Active") <=> (r.val >= min_confirmations)
                  /\ r.val < min_confirmations =>
                        /\ utxos'[t].status = "Pending"
                        /\ utxos'[t].utxo.confirmations = r.val]_vars

(* An update sweep over two entries that has promoted the first with a     *)
(* fetched count equal to the threshold, the second still to come          *)
C5_Witness ==
    \E h \in Handles :
        /\ min_confirmations >= 1
        /\ spc[h] = "update_confirmations"
        /\ Cardinality(snapshot[h]) = 2
        /\ Len(todo[h]) = 1
        /\ \E t \in snapshot[h] \ SeqSet(todo[h]) :
              /\ utxos[t].status = "Active"
              /\ utxos[t].utxo.confirmations = min_confirmations
        /\ \A g \in Handles \ {h} : spc[g] = "idle"

(* C6: every status change made by a sweep is a legal transition:          *)
(* update_confirmations only moves Pending to Active, handle_chain_reorg   *)
(* moves an Active entry only to Spent or Invalid.                         *)
C6_SweepsMakeLegalTransitions ==
    [][/\ UpdateConfirmationsStep =>
             \A t \in DOMAIN utxos :
                 utxos'[t].status # utxos[t].status =>
                     utxos[t].status = "Pending" /\ utxos'[t].status = "Active"
       /\ HandleChainReorgStep =>
             \A t \in DOMAIN utxos :
                 utxos'[t].status # utxos[t].status =>
                     utxos[t].status = "Active" /\ utxos'[t].status \in {"Spent", "Invalid"}]_vars

(* C7: handle_chain_reorg re-checks every entry that is Active when the    *)
(* sweep starts and no other; a reply other than Active overwrites the     *)
(* stored status, an error makes it Invalid, Active leaves the entry as it *)
(* is; entries that are Pending at the start are not in the sweep.         *)
RecheckedStatus(old, reply) ==
    IF ~reply.ok THEN "Invalid"
    ELSE IF reply.val = "Active" THEN old
    ELSE reply.val

C7_ReorgRechecksActiveEntries ==
    [][/\ \A h \in Handles, q \in Orders(ActiveTxids(utxos)) :
             UtxoTracker_handle_chain_reorg_collect(h, q) =>
                 /\ snapshot'[h] = {t \in DOMAIN utxos : utxos[t].status = "Active"}
                 /\ SeqSet(todo'[h]) = snapshot'[h]
                 /\ Len(todo'[h]) = Cardinality(snapshot'[h])
                 /\ utxos' = utxos
       /\ \A h \in Handles, r \in StatusReplies :
             UtxoTracker_handle_chain_reorg_step(h, r) =>
                 LET t == Head(todo[h])
                 IN  /\ t \in snapshot[h]
                     /\ utxos'[t].status = RecheckedStatus(utxos[t].status, r)
                     /\ utxos'[t].utxo = utxos[t].utxo
                     /\ \A j \in DOMAIN utxos \ {t} : utxos'[j] = utxos[j]
                     /\ DOMAIN utxos' = DOMAIN utxos
                     /\ Len(todo[h]) > 1 =>
                           /\ todo'[h] = Tail(todo[h])
                           /\ snapshot'[h] = snapshot[h]
                           /\ spc'[h] = "handle_chain_reorg"]_vars

(* A reorg sweep over two entries that has re-checked the first and made   *)
(* it Invalid, with the second still to come                               *)
C7_Witness ==
    \E h \in Handles :
        /\ spc[h] = "handle_chain_reorg"
        /\ Cardinality(snapshot[h]) = 2
        /\ Len(todo[h]) = 1
        /\ \E t \in snapshot[h] \ SeqSet(todo[h]) : utxos[t].status = "Invalid"
        /\ \A g \in Handles \ {h} : spc[g] = "idle"

(* C8: a failed confirmation fetch leaves the entry's status and stored    *)
(* count unchanged, and the sweep goes on to the remaining entries of its  *)
(* snapshot, whose results it applies.                                     *)
C8_FetchFailureDoesNotAbortSweep ==
    [][\A h \in Handles, r \in ConfirmationResults :
          UtxoTracker_update_confirmations_step(h, r) =>
              /\ ~r.ok => utxos' = utxos
              /\ Len(todo[h]) > 1 =>
                    /\ todo'[h] = Tail(todo[h])
                    /\ snapshot'[h] = snapshot[h]
                    /\ spc'[h] = "update_confirmations"
              /\ (r.ok /\ Head(todo[h]) \in DOMAIN utxos) =>
                    utxos'[Head(todo[h])].utxo.confirmations = r.val]_vars

(* An update sweep over two entries, under a threshold of 0 that every     *)
(* fetched count reaches, whose first entry is still Pending while the     *)
(* second is still to come                                                 *)
C8_Witness ==
    \E h \in Handles :
        /\ min_confirmations = 0
        /\ spc[h] = "update_confirmations"
        /\ Cardinality(snapshot[h]) = 2
        /\ Len(todo[h]) = 1
        /\ \E t \in snapshot[h] \ SeqSet(todo[h]) : utxos[t].status = "Pending"
        /\ \A g \in Handles \ {h} : spc[g] = "idle"

(* C9: no sweep changes the status of an entry whose status is Invalid.    *)
C9_InvalidNeverChangedBySweep ==
    [][(UpdateConfirmationsStep \/ HandleChainReorgStep) =>
          \A t \in DOMAIN utxos :
              utxos[t].status = "Invalid" => utxos'[t].status = "Invalid"]_vars

(* C10: UTXOs that differ in transaction id or in output index are         *)
(* distinct keys of the tracker map: adding one never overwrites the       *)
(* entry of the other.                                                     *)
C10_DistinctIdentitiesDistinctKeys ==
    [][\A u \in TrackerUtxos, s \in UtxoStatus :
          UtxoTracker_add_utxo(u, s) =>
              \A t \in DOMAIN utxos :
                  Identity(utxos[t].utxo) # Identity(u) =>
                      t \in DOMAIN utxos' /\ utxos'[t] = utxos[t]]_vars

(* Hex decoding accepts both cases, so the upper-case spelling of a txid   *)
(* has the cache key of the lower-case one.                                *)
UpperCaseSharesKey == txid_to_bytes(UtxoAUpper) = txid_to_bytes(UtxoA0)

(* The same for the cache map: a lookup is answered from an entry only if  *)
(* the entry was stored for the UTXO looked up.                            *)
CacheAnswersFromOwnEntry ==
    [][\A c \in Callers, u \in CacheUtxos :
          (/\ KeyOf[u].ok
           /\ UtxoCache_get_utxo_status_lookup(c, u)
           /\ cpc'[c] = "idle") =>
              Identity(cache[KeyOf[u].val].utxo) = Identity(u)]_vars

-----------------------------------------------------------------------------
(* Reorg and cleanup of the status cache, checked under SpecCache *)

(* C13: after handle_reorg(height) the cache holds zero entries, for every *)
(* height and every prior content.                                         *)
C13_HandleReorgEmptiesCache ==
    [][\A h \in 0..1 :
          UtxoCache_handle_reorg(h) => Cardinality(DOMAIN cache') = 0]_vars

(* The last call stored or served an Active entry, which neither cleanup   *)
(* nor an eviction has removed since: the cache is empty after a reorg.    *)
C13_Witness ==
    /\ cache = <<>>
    /\ cpc["c1"] = "idle"
    /\ ret["c1"] = Some(Ok("Active"))

(* C14: cleanup() removes an entry iff its status is Spent or Invalid and  *)
(* now - last_updated >= invalid_ttl; Active and Pending entries are kept  *)
(* whatever their age, and a kept entry is not modified.                   *)
C14_CleanupRemovesExpiredOnly ==
    [][UtxoCache_cleanup =>
          /\ DOMAIN cache' \subseteq DOMAIN cache
          /\ \A k \in DOMAIN cache :
                /\ (k \notin DOMAIN cache') <=>
                      (/\ cache[k].status \in {"Spent", "Invalid"}
                       /\ now - cache[k].last_updated >= config.invalid_ttl)
                /\ cache[k].status \in {"Active", "Pending"} => k \in DOMAIN cache'
                /\ k \in DOMAIN cache' => cache'[k] = cache[k]]_vars

(* The last call stored or served a Spent entry that is no longer cached,  *)
(* while an Active entry at least invalid_ttl old still is                 *)
C14_Witness ==
    /\ cpc["c1"] = "idle"
    /\ ret["c1"] = Some(Ok("Spent"))
    /\ \A k \in DOMAIN cache : cache[k].status # "Spent"
    /\ \E k \in DOMAIN cache :
          /\ cache[k].status = "Active"
          /\ now - cache[k].last_updated >= config.invalid_ttl

-----------------------------------------------------------------------------
(* Properties of the tracker's client calls, checked under SpecClient *)

(* C11: mark_utxo_spent(txid) sets the status of the entry for txid to     *)
(* Spent whatever it was, leaves its record and every other entry          *)
(* unchanged, and changes nothing (creates no entry) when txid is not      *)
(* tracked.                                                                *)
C11_MarkSpentOnlySetsStatus ==
    [][\A t \in TrackerTxids :
          UtxoTracker_mark_utxo_spent(t) =>
              IF t \in DOMAIN utxos
              THEN /\ DOMAIN utxos' = DOMAIN utxos
                   /\ utxos'[t].status = "Spent"
                   /\ utxos'[t].utxo = utxos[t].utxo
                   /\ \A j \in DOMAIN utxos \ {t} : utxos'[j] = utxos[j]
              ELSE utxos' = utxos]_vars

(* The client has added one entry as Pending and another as Invalid, and   *)
(* its last call marked the Invalid one spent                              *)
C11_Witness ==
    /\ Len(calls) = 3
    /\ calls[1].op = "add_utxo" /\ calls[1].arg = <<UtxoBad, "Pending">>
    /\ calls[2].op = "add_utxo" /\ calls[2].arg = <<UtxoA1, "Invalid">>
    /\ calls[3].op = "mark_utxo_spent" /\ calls[3].arg = <<TxA>>
    /\ utxos[TxA] = [utxo |-> UtxoA1, status |-> "Spent"]
    /\ utxos[TxBad] = [utxo |-> UtxoBad, status |-> "Pending"]

(* C12: get_total_value_by_status(s) returns the sum of amount_sats over   *)
(* the entries whose status is s and does not modify the tracked set;      *)
(* marking a tracked UTXO of amount A spent moves A from the total of its  *)
(* previous status to the total of Spent.                                  *)
AmountIn(t, s) ==
    IF t \in DOMAIN utxos /\ utxos[t].status = s
    THEN utxos[t].utxo.amount_sats ELSE 0

-----------------------------------------------------------------------------
(* Properties of the chain client, checked under SpecRpc. `wire` holds the *)
(* requests and delays of the latest query (make_rpc_call).                *)

Done == rpcpc = "done"
Requests(w) == {i \in 1..Len(w) : w[i].ev = "request"}
Sleeps(w) == {i \in 1..Len(w) : w[i].ev = "sleep"}
LastEvent == wire[Len(wire)]

(* An attempt fails unless the remote answers it and knows the transaction *)
Failed(event) == event.fault # "none" \/ ~chain.known

(* C15: a query makes at most 3 attempts, and exactly 3 when every attempt *)
(* fails, whatever the failures are; a delay of 1 second lies between two  *)
(* consecutive attempts and none follows the last.                         *)
C15_ThreeAttemptsFixedDelay ==
    /\ Cardinality(Requests(wire)) <= 3
    /\ Cardinality(Sleeps(wire)) <= 2
    /\ \A i \in 1..Len(wire) :
          /\ i % 2 = 1 => wire[i].ev = "request"
          /\ i % 2 = 0 => wire[i].ev = "sleep" /\ wire[i].ms = 1000
    /\ rpcpc = "sleep" => Failed(LastEvent) /\ Cardinality(Requests(wire)) < 3
    /\ Done => LastEvent.ev = "request"
    /\ (Done /\ \A i \in Requests(wire) : Failed(wire[i])) =>
          Cardinality(Requests(wire)) = 3

(* A call whose three attempts were all rejected with HTTP 401 *)
C15_Witness ==
    /\ Done
    /\ Len(wire) = 5
    /\ \A i \in Requests(wire) : wire[i].fault = "unauthorized"
    /\ rret = Some(Err("AuthError"))

(* C16: a query returns the result of its first successful attempt and     *)
(* makes no attempt after it; when all attempts fail it returns the error  *)
(* of the last one, AuthError when that one was rejected with HTTP 401.    *)
ErrorKind(fault) ==
    CASE fault = "transport" -> "ConnectionFailed"
      [] fault = "unauthorized" -> "AuthError"
      [] OTHER -> "InvalidResponse"

C16_FirstSuccessOrLastError ==
    /\ \A i \in Requests(wire) : i < Len(wire) => Failed(wire[i])
    /\ Done =>
          /\ rret[1].ok <=> ~Failed(LastEvent)
          /\ ~rret[1].ok => rret[1].err = ErrorKind(LastEvent.fault)
          /\ (rcall = Some("get_transaction") /\ ~Failed(LastEvent)) =>
                rret[1].val = "tx"

(* test_retry_logic: get_transaction whose first two attempts met an HTTP  *)
(* 500 and whose third was answered                                        *)
C16_Witness ==
    /\ Done
    /\ rcall = Some("get_transaction")
    /\ Len(wire) = 5
    /\ wire[1].fault = "undecodable" /\ wire[3].fault = "undecodable"
    /\ wire[5].fault = "none"
    /\ rret = Some(Ok("tx"))

(* C17: a failure of absence (the remote reports that the transaction does *)
(* not exist) is not retried: the query makes a single attempt and the     *)
(* failure goes to the caller at once.                                     *)
C17_AbsenceNotRetried ==
    (~chain.known /\ wire # <<>> /\ wire[1].fault = "none") =>
        Done /\ Len(wire) = 1 /\ ~rret[1].ok

(* C18: get_transaction fails with TxNotFound when the remote reports that *)
(* no such transaction exists, and with InvalidResponse when the payload   *)
(* does not decode.                                                        *)
C18_UnknownTransactionIsTxNotFound ==
    (Done /\ rcall = Some("get_transaction")) =>
        /\ (~chain.known /\ LastEvent.fault = "none") =>
              ~rret[1].ok /\ rret[1].err = "TxNotFound"
        /\ LastEvent.fault = "undecodable" =>
              ~rret[1].ok /\ rret[1].err = "InvalidResponse"

(* C19: get_confirmations returns Ok(0), never an error, for a transaction *)
(* that is unconfirmed or unknown to the remote.                           *)
C19_UnknownOrUnconfirmedIsZero ==
    (/\ Done
     /\ rcall = Some("get_confirmations")
     /\ LastEvent.fault = "none"
     /\ ~chain.known \/ chain.confirmations = 0) =>
        rret[1].ok /\ rret[1].val = 0

(* C20: get_utxo_status returns Pending on a confirmation count of 0       *)
(* without issuing the spent-check (gettxout, its fourth query); on a      *)
(* count above 0 it issues the spent-check and returns Active if the       *)
(* output is unspent and Spent if it is not.                               *)
C20_PendingWithoutSpentCheck ==
    rcall = Some("get_utxo_status") =>
        /\ rconf = Some(0) =>
              /\ rpos <= 3
              /\ Done
              /\ rret = Some(Ok("Pending"))
        /\ (rconf # None /\ rconf[1] > 0) =>
              /\ rpos = 4
              /\ Done => /\ wire[1].pos = 4
                         /\ rret[1].ok =>
                               rret[1].val = IF chain.unspent THEN "Active" ELSE "Spent"
        /\ (Done /\ rret[1].ok) => rconf = Some(chain.confirmations)

(* get_utxo_status of a confirmed output that is spent *)
C20_Witness ==
    /\ Done
    /\ rcall = Some("get_utxo_status")
    /\ rconf = Some(1)
    /\ wire[Len(wire)] = Request(4, "none")
    /\ rret = Some(Ok("Spent"))

-----------------------------------------------------------------------------
(* C23: get_utxo_status of the cache for a UTXO whose transaction id is    *)
(* not the hex form of exactly 32 bytes fails with InvalidResponse, issues *)
(* no ChainClient query and leaves the cache contents unchanged. Checked   *)
(* under SpecCache.                                                        *)
Malformed(txid) ==
    \/ Len(txid) # 2 * 32
    \/ \E i \in 1..Len(txid) : ~IsHexChar(txid[i])

C23_MalformedTxidIsInvalidResponse ==
    [][\A c \in Callers, u \in CacheUtxos :
          (Malformed(u.txid) /\ UtxoCache_get_utxo_status_lookup(c, u)) =>
              /\ ret'[c] = Some(Err("InvalidResponse"))
              /\ cpc'[c] = "idle"
              /\ cacheLock' = None
              /\ cache' = cache]_vars

(* The cache holds an entry and the last call, for a malformed id, failed  *)
C23_Witness ==
    /\ cache # <<>>
    /\ cpc["c1"] = "idle"
    /\ ret["c1"] = Some(Err("InvalidResponse"))

-----------------------------------------------------------------------------
(* The two chain clients side by side, checked under SpecMock *)

(* C36: for every remote chain state (transaction absent, invalid, or      *)
(* present with c confirmations; output unspent, spent or missing) the     *)
(* in-memory fixture client's get_utxo_status returns the same result as   *)
(* the live JSON-RPC client's get_utxo_status for that state.              *)
C36_MockAgreesWithLive ==
    (mret # None /\ lret # None /\ mret[1].utxo = lret[1].utxo) =>
        mret[1].val = lret[1].val

-----------------------------------------------------------------------------
(* The NAV update of the on-chain state, checked under SpecNav *)

(* C39: update_nav(new, clock) is rejected, leaving nav_sats and           *)
(* last_nav_update unchanged, when fewer than 15 seconds have passed since *)
(* last_nav_update, when new is 0, when new exceeds the current NAV by     *)
(* more than 400%, or when new is below it by more than 80%; otherwise it  *)
(* sets nav_sats to new and last_nav_update to the clock time, for all     *)
(* unsigned inputs of the fields' width without arithmetic wrap-around.    *)
(* The percentage is the whole-number percentage of the current NAV; a     *)
(* first update, of a NAV of 0, has no percentage to exceed.               *)
MustReject(nav, last, new, clock) ==
    \/ clock - last < MinUpdateDelay
    \/ new = 0
    \/ nav > 0 /\ new > nav /\ ((new - nav) * 100) \div nav > MaxIncreasePercent
    \/ nav > 0 /\ new < nav /\ ((nav - new) * 100) \div nav > MaxDecreasePercent

C39_NavUpdateValidated ==
    [][\A n \in NavInputs, t \in ClockInputs, b \in Builds :
          update_nav(n, t, b) =>
              IF MustReject(nav_sats, last_nav_update, n, t)
              THEN /\ ~nret'[1].ok
                   /\ nav_sats' = nav_sats
                   /\ last_nav_update' = last_nav_update
              ELSE /\ nret'[1].ok
                   /\ nav_sats' = n
                   /\ last_nav_update' = t]_vars

-----------------------------------------------------------------------------
(* The cache-fronted client of bitcoin_rpc.rs, checked under SpecElectrs *)

(* C37: in the indexed-service client, get_utxo_status for a UTXO that is  *)
(* not yet cached terminates and returns a status: on the call path client *)
(* -> cache lookup -> client, no call tries to acquire the cache lock that *)
(* its own in-progress cache lookup already holds.                         *)
C37_UncachedLookupReturns ==
    /\ ~(epc.at = "nested" /\ cacheLock = Some("c1"))
    /\ epc.at \notin {"deadlocked", "panicked"}

(* C38: after get_utxo_status on the cache-fronted client returns Ok for a *)
(* UTXO, the client's cache holds an entry for that UTXO:                  *)
(* get_cache_stats().total_entries equals the number of distinct UTXOs     *)
(* successfully looked up (below capacity, with no cleanup or handle_reorg *)
(* in between), and repeating the lookup does not add a second entry.      *)
C38_StatsCountLookedUpUtxos ==
    [][(Electrs_get_cache_stats /\ Cardinality(eok) < config.max_size) =>
          stats'[1].total_entries = Cardinality(eok)]_vars

-----------------------------------------------------------------------------
(* What the sweeps write, checked under SpecSweeps and SpecTracker *)

(* C34: for a tracked entry that was added as Pending and is not re-added, *)
(* whenever its status is Active its stored confirmation count is >=       *)
(* min_confirmations, also when several update_confirmations sweeps run    *)
(* concurrently on handles sharing the tracked set and the remote's count  *)
(* changes between their queries.                                          *)
C34_ActiveHasMinConfirmations ==
    \A t \in DOMAIN utxos :
        utxos[t].status = "Active" =>
            utxos[t].utxo.confirmations >= min_confirmations

(* C35: neither sweep adds or removes a tracked entry, and each sweep      *)
(* modifies only entries of its own snapshot: update_confirmations changes *)
(* only the confirmation count and status of entries that were Pending at  *)
(* its start, and handle_chain_reorg changes only the status (never the    *)
(* record's confirmations, amount or block fields) of entries that were    *)
(* Active at its start.                                                    *)
SameButConfirmations(a, b) == [a EXCEPT !.confirmations = b.confirmations] = b

C35_SweepsWriteOnlyTheirSnapshot ==
    [][\A h \in Handles :
        /\ \A q \in Orders(PendingTxids(utxos)) :
              UtxoTracker_update_confirmations_collect(h, q) =>
                  /\ utxos' = utxos
                  /\ snapshot'[h] = PendingTxids(utxos)
        /\ \A q \in Orders(ActiveTxids(utxos)) :
              UtxoTracker_handle_chain_reorg_collect(h, q) =>
                  /\ utxos' = utxos
                  /\ snapshot'[h] = ActiveTxids(utxos)
        /\ \A r \in ConfirmationResults :
              UtxoTracker_update_confirmations_step(h, r) =>
                  /\ DOMAIN utxos' = DOMAIN utxos
                  /\ \A t \in DOMAIN utxos :
                        /\ SameButConfirmations(utxos[t].utxo, utxos'[t].utxo)
                        /\ utxos'[t] # utxos[t] => t \in snapshot[h]
        /\ \A r \in StatusReplies :
              UtxoTracker_handle_chain_reorg_step(h, r) =>
                  /\ DOMAIN utxos' = DOMAIN utxos
                  /\ \A t \in DOMAIN utxos :
                        /\ utxos'[t].utxo = utxos[t].utxo
                        /\ utxos'[t] # utxos[t] => t \in snapshot[h]]_vars

(* A reorg sweep over two entries has re-checked the first and found it    *)
(* Invalid; the record still has the count an earlier sweep stored         *)
C35_Witness ==
    \E h \in Handles :
        /\ spc[h] = "handle_chain_reorg"
        /\ Cardinality(snapshot[h]) = 2
        /\ Len(todo[h]) = 1
        /\ \E t \in snapshot[h] \ {todo[h][1]} :
              /\ t \in DOMAIN utxos
              /\ utxos[t].status = "Invalid"
              /\ utxos[t].utxo.confirmations = MaxConf

-----------------------------------------------------------------------------
(* The cache called by tasks of one runtime, checked under SpecSched *)

(* C33: when several get_utxo_status calls run concurrently as tasks of    *)
(* the cooperative scheduler and the remote answers every request, every   *)
(* call eventually returns: holding the cache lock across the suspension   *)
(* at the remote query never blocks all of them forever, including when    *)
(* they share a single worker thread.                                      *)
C33_EveryCallReturns == \A c \in Callers : <>(ret[c] # None)

-----------------------------------------------------------------------------
(* The outcome of a cache miss, checked under SpecCache *)

(* C31: after a get_utxo_status call that queried the ChainClient          *)
(* successfully, the entry for the key holds exactly the status returned,  *)
(* with last_updated and last_accessed both set at the insert, the call    *)
(* returns that same status, and a following lookup of the key within the  *)
(* freshness interval returns it without a new query.                      *)
FreshnessInterval(status) ==
    IF status \in {"Active", "Pending"} THEN config.refresh_interval
    ELSE config.invalid_ttl

C31_MissStoresFetchedStatus ==
    [][/\ \A c \in Callers, r \in StatusReplies, o \in OldestChoices(cache) :
             (r.ok /\ UtxoCache_get_utxo_status_reply(c, r, o)) =>
                 LET k == KeyOf[carg[c][1]].val
                 IN  /\ k \in DOMAIN cache'
                     /\ cache'[k].status = r.val
                     /\ cache'[k].utxo = carg[c][1]
                     /\ cache'[k].last_updated = now
                     /\ cache'[k].last_accessed = now
                     /\ ret'[c] = Some(Ok(r.val))
                     /\ cacheLock' = None
       /\ \A c \in Callers, u \in CacheUtxos :
             (/\ KeyOf[u].ok
              /\ KeyOf[u].val \in DOMAIN cache
              /\ now - cache[KeyOf[u].val].last_updated
                     < FreshnessInterval(cache[KeyOf[u].val].status)
              /\ UtxoCache_get_utxo_status_lookup(c, u)) =>
                 /\ ret'[c] = Some(Ok(cache[KeyOf[u].val].status))
                 /\ cpc'[c] = "idle"
                 /\ cache'[KeyOf[u].val].status = cache[KeyOf[u].val].status
                 /\ cache'[KeyOf[u].val].last_updated
                       = cache[KeyOf[u].val].last_updated]_vars

(* The call has just stored Active for a key, after the clock's start,     *)
(* next to an older entry of another key                                   *)
C31_Witness ==
    /\ cpc["c1"] = "idle"
    /\ ret["c1"] = Some(Ok("Active"))
    /\ now > 0
    /\ \E k \in DOMAIN cache :
          /\ cache[k].status = "Active"
          /\ cache[k].last_updated = now
          /\ cache[k].last_accessed = now
          /\ \E j \in DOMAIN cache \ {k} : cache[j].last_updated < now

(* C32: when the ChainClient query made by get_utxo_status fails, the      *)
(* error is returned to the caller and the cache is left as it was except  *)
(* for the last_accessed of the looked-up entry: no entry is evicted,      *)
(* inserted or removed, and a stale entry for the key keeps its old status *)
(* and last_updated.                                                       *)
C32_FailedQueryLeavesCache ==
    [][/\ \A c \in Callers, u \in CacheUtxos :
             (/\ KeyOf[u].ok
              /\ UtxoCache_get_utxo_status_lookup(c, u)
              /\ cpc'[c] = "rpc") =>
                 LET k == KeyOf[u].val
                 IN  /\ DOMAIN cache' = DOMAIN cache
                     /\ \A j \in DOMAIN cache \ {k} : cache'[j] = cache[j]
                     /\ k \in DOMAIN cache =>
                           /\ cache'[k].status = cache[k].status
                           /\ cache'[k].last_updated = cache[k].last_updated
                           /\ cache'[k].utxo = cache[k].utxo
       /\ \A c \in Callers, r \in StatusReplies, o \in OldestChoices(cache) :
             (~r.ok /\ UtxoCache_get_utxo_status_reply(c, r, o)) =>
                 /\ ret'[c] = Some(r)
                 /\ cache' = cache
                 /\ cacheLock' = None]_vars

(* The refresh of a stale Active entry has failed: the caller has the      *)
(* error, and the entry its old status and last_updated, in a full cache   *)
C32_Witness ==
    /\ cpc["c1"] = "idle"
    /\ ret["c1"] = Some(Err("ConnectionFailed"))
    /\ Cardinality(DOMAIN cache) = config.max_size
    /\ \E k \in DOMAIN cache :
          /\ cache[k].status = "Active"
          /\ now - cache[k].last_updated >= config.refresh_interval
          /\ cache[k].last_accessed = now

-----------------------------------------------------------------------------
(* The sweeps of the tracker and its lock, checked under SpecTracker and,  *)
(* for termination, under SpecTrackerFair                                  *)

Sweeping(h) == spc[h] # "idle"

(* C27: while update_confirmations or handle_chain_reorg is waiting for a  *)
(* ChainClient reply it does not hold the tracker lock: add_utxo,          *)
(* mark_utxo_spent, get_utxo_status and the aggregate queries issued       *)
(* through another handle complete without waiting for that reply.         *)
C27_SweepWaitsWithoutLock ==
    \A h \in Handles :
        Sweeping(h) =>
            /\ trackerLock = None
            /\ UtxoTracker_lock
            /\ \A u \in TrackerUtxos, st \in UtxoStatus :
                  ENABLED UtxoTracker_add_utxo(u, st)
            /\ \A t \in TrackerTxids : ENABLED UtxoTracker_mark_utxo_spent(t)
            /\ \A g \in Handles \ {h} :
                  ~Sweeping(g) =>
                      \E q \in Orders(ActiveTxids(utxos)) :
                          ENABLED UtxoTracker_handle_chain_reorg_collect(g, q)

(* An update sweep is waiting for the reply for an entry that has been     *)
(* marked spent since the sweep collected it as Pending                    *)
C27_Witness ==
    \E h \in Handles :
        /\ spc[h] = "update_confirmations"
        /\ \A g \in Handles \ {h} : ~Sweeping(g)
        /\ Len(todo[h]) = 2
        /\ utxos[Head(todo[h])].status = "Spent"

NoDuplicates(q) == \A i, j \in 1..Len(q) : q[i] = q[j] => i = j

(* C28: provided every ChainClient query eventually returns, the sweeps    *)
(* always terminate: each issues one query sequence per entry of the       *)
(* snapshot taken at its start and visits no entry that was added, or that *)
(* became Pending/Active, after that snapshot.                             *)
C28_SweepsTerminateOverSnapshot ==
    /\ \A h \in Handles : Sweeping(h) ~> ~Sweeping(h)
    /\ [](\A h \in Handles :
             Sweeping(h) => /\ todo[h] # <<>>
                            /\ NoDuplicates(todo[h])
                            /\ SeqSet(todo[h]) \subseteq snapshot[h])
    /\ [][\A h \in Handles :
             /\ (~Sweeping(h) /\ Sweeping(h)') =>
                   /\ SeqSet(todo'[h]) = snapshot'[h]
                   /\ snapshot'[h] = IF spc'[h] = "update_confirmations"
                                     THEN PendingTxids(utxos) ELSE ActiveTxids(utxos)
             /\ (Sweeping(h) /\ Sweeping(h)') =>
                   /\ spc'[h] = spc[h]
                   /\ snapshot'[h] = snapshot[h]
                   /\ todo'[h] = todo[h] \/ todo'[h] = Tail(todo[h])
             /\ (Sweeping(h) /\ ~Sweeping(h)') => Len(todo[h]) = 1]_vars

(* An update sweep over a snapshot of one entry is waiting for its reply   *)
(* while the map holds another Pending entry, added after the snapshot     *)
C28_Witness ==
    \E h \in Handles :
        /\ spc[h] = "update_confirmations"
        /\ \A g \in Handles \ {h} : ~Sweeping(g)
        /\ Cardinality(snapshot[h]) = 1
        /\ \E t \in DOMAIN utxos \ snapshot[h] : utxos[t].status = "Pending"

-----------------------------------------------------------------------------
(* Concurrent calls of the cache for one UTXO it has never seen, checked   *)
(* under SpecRace                                                          *)

Returned(c) == cpc[c] = "idle" /\ ret[c] # None
ReturnedStatus(c) == Returned(c) /\ ret[c][1].ok

(* C24: when N status queries for the same never-before-seen UTXO run      *)
(* concurrently and the remote's view of that UTXO does not change while   *)
(* they run, all N calls return the same status value.                     *)
C24_AllCallsReturnSameStatus ==
    \A c, d \in Callers :
        (ReturnedStatus(c) /\ Returned(d)) => ret[d] = ret[c]

(* The status the remote's view stands for *)
RemoteStatus(c) ==
    IF c.confirmations = 0 THEN "Pending"
    ELSE IF c.unspent THEN "Active" ELSE "Spent"

(* C24, amended: all calls that return a status return the same status     *)
(* value, the one of the remote's view; a call whose own remote query      *)
(* fails returns that error instead.                                       *)
C24_CallsThatReturnStatusAgree ==
    /\ \A c, d \in Callers :
          (ReturnedStatus(c) /\ ReturnedStatus(d)) => ret[d] = ret[c]
    /\ \A c \in Callers :
          ReturnedStatus(c) => chain.known /\ ret[c][1].val = RemoteStatus(chain)

(* Both calls have returned Spent, the second from the entry the first     *)
(* stored                                                                  *)
C24_Witness ==
    /\ \A c \in Callers : Returned(c) /\ ret[c] = Some(Ok("Spent"))
    /\ \E k \in DOMAIN cache : cache[k].last_accessed > cache[k].last_updated

(* C26: two concurrent get_utxo_status calls for the same never-cached key *)
(* can both miss the cache and both issue their own remote query: the      *)
(* second call does not wait for the first call's result.                  *)
C26_SecondCallDoesNotWait ==
    \A c, d \in Callers :
        (cpc[c] = "rpc" /\ cpc[d] = "idle" /\ ret[d] = None /\ ~poisoned) =>
            ENABLED UtxoCache_get_utxo_status_lookup(d, carg[c][1])

-----------------------------------------------------------------------------
(* The lock of the cache and the end of its operations, checked under      *)
(* SpecShared                                                              *)

InFlight == {c \in Callers : cpc[c] = "rpc"}

(* C25: the cache lookup holds the cache lock from before its map lookup   *)
(* until after it has committed the fetched status, so at any time at most *)
(* one ChainClient query started by the cache is in flight, across all     *)
(* keys, and no other cache operation (lookup, cleanup, handle_reorg,      *)
(* get_stats) observes or changes the map in between.                      *)
C25_LockHeldFromLookupToCommit ==
    /\ [](Cardinality(InFlight) <= 1 /\ \A c \in InFlight : cacheLock = Some(c))
    /\ [][/\ \A c \in Callers :
                cpc[c] = "idle" /\ cpc'[c] = "rpc" => cacheLock = None
          /\ \A c \in InFlight :
                /\ cache' # cache => cpc'[c] = "idle"
                /\ cacheLock' # cacheLock => cpc'[c] = "idle"
                /\ stats' = stats
                /\ \A d \in Callers \ {c} : ret'[d] = ret[d] /\ cpc'[d] = cpc[d]]_vars

(* A query for one key is in flight while the cache holds an entry for the *)
(* other key, stored by the call the other task has returned from          *)
C25_Witness ==
    /\ cpc["c1"] = "rpc"
    /\ carg["c1"] = Some(UtxoB0)
    /\ cacheLock = Some("c1")
    /\ Returned("c2") /\ ret["c2"][1].ok
    /\ KeyOf[UtxoA0].val \in DOMAIN cache
    /\ now > 0

(* C29: every operation of the cache, the tracker and the ChainClient      *)
(* ends, in every reachable state and for every remote behaviour, by       *)
(* returning a value or an error to its caller: none aborts, and none      *)
(* leaves the shared map permanently unusable for later callers (for       *)
(* example when an entry's last_updated is later than the current clock    *)
(* reading).                                                               *)
C29_NoOperationAborts ==
    /\ ~poisoned
    /\ \A c \in Callers : cpc[c] # "panicked"

-----------------------------------------------------------------------------
(* Revalidation of a record, checked under SpecValidate *)

(* C30: a UTXO record needs revalidation against a current block hash iff  *)
(* it stores a block hash different from it, or stores no block hash but   *)
(* has confirmations > 0; when validate_utxo finds that the record needs   *)
(* revalidation it resets confirmations to 0 and clears block height and   *)
(* block hash before fetching block info again.                            *)
StoresOtherHash(utxo, hash) == utxo.block_hash # None /\ utxo.block_hash # Some(hash)
CountedWithoutHash(utxo) == utxo.block_hash = None /\ utxo.confirmations > 0

C30_RevalidationResetsRecord ==
    /\ [](\A h \in BlockHashStrings :
             needs_revalidation(vutxo, h)
                 <=> (StoresOtherHash(vutxo, h) \/ CountedWithoutHash(vutxo)))
    /\ [][\A r \in BestBlockHashReplies :
             (r.ok /\ validate_utxo_best_block_hash(r)) =>
                 LET current == BlockHash_to_string(r.val)
                 IN  /\ vpc' = "get_tx_block_info"
                     /\ IF StoresOtherHash(vutxo, current) \/ CountedWithoutHash(vutxo)
                        THEN /\ vutxo'.confirmations = 0
                             /\ vutxo'.block_height = None
                             /\ vutxo'.block_hash = None
                             /\ vutxo'.txid = vutxo.txid
                             /\ vutxo'.vout = vutxo.vout
                             /\ vutxo'.amount_sats = vutxo.amount_sats
                        ELSE vutxo' = vutxo]_vars

(* validate_utxo has detected a reorganization and reset the record, and   *)
(* is about to fetch the block info again                                  *)
C30_Witness ==
    /\ vpc = "get_tx_block_info"
    /\ vmsg = {"Chain reorganization detected, revalidating UTXO"}
    /\ vutxo.confirmations = 0
    /\ vutxo.block_height = None
    /\ vutxo.block_hash = None

-----------------------------------------------------------------------------
(* More of the chain client, checked under SpecRpc *)

(* C21: get_utxo_status for a transaction id that has no matching          *)
(* transaction on the remote returns Ok(Invalid), not an error.            *)
C21_UnknownTransactionIsInvalid ==
    (/\ Done
     /\ rcall = Some("get_utxo_status")
     /\ ~chain.known
     /\ LastEvent.fault = "none") =>
        rret[1].ok /\ rret[1].val = "Invalid"

(* C22: a response is accepted as success only when it carries a result    *)
(* and no error; a response with neither a result nor an error, and one    *)
(* with both, makes the attempt fail with InvalidResponse.                 *)
Carries(response, result, error) ==
    /\ response.sent
    /\ response.status = 200
    /\ response.body # None
    /\ (response.body[1].result # None) <=> result
    /\ (response.body[1].error # None) <=> error

C22_SuccessIsResultWithoutError ==
    [][\A f \in Faults :
          BitcoinRpcClient_make_rpc_call_attempt(f) =>
              LET response == Response(Queries(rcall[1])[rpos], chain, f)
                  accepted == \/ rpos' = rpos + 1
                              \/ rpcpc' = "done" /\ rret'[1].ok
              IN  /\ accepted <=> Carries(response, TRUE, FALSE)
                  /\ (\/ Carries(response, FALSE, FALSE)
                      \/ Carries(response, TRUE, TRUE)) =>
                        IF retries = MAX_RETRIES - 1
                        THEN rpcpc' = "done" /\ rret' = Some(Err("InvalidResponse"))
                        ELSE rpcpc' = "sleep" /\ retries' = retries + 1]_vars

(* A call that met a response with neither result nor error and then two   *)
(* responses with both, and returned InvalidResponse                       *)
C22_Witness ==
    /\ Done
    /\ Len(wire) = 5
    /\ wire[1].fault = "empty" /\ wire[3].fault = "both" /\ wire[5].fault = "both"
    /\ chain.known
    /\ rret = Some(Err("InvalidResponse"))

====
